---- MODULE Spec2Model ----
(***************************************************************************)
(* The symbol edit tool of repo-map (src/tools/symbol.ts): execute and the *)
(* text and tree algorithms it calls.                                      *)
(*                                                                         *)
(* A text is a sequence of characters.  The alphabet is a handful of       *)
(* characters; a keyword or an identifier is one character of it (its      *)
(* letters never matter to the code: the matcher compares whole words).    *)
(* Positions are 0-based as in the source; At(t, i) reads position i.      *)
(***************************************************************************)
EXTENDS Integers, Sequences, FiniteSets, TLC

\* ------------------------------------------------------------------ text

NL == "\n"

SP == " "

\* \s of the regular expressions and the white space String.trim strips
IsWs(c) == c \in {NL, SP}

At(t, i) == t[i + 1]

Min(a, b) == IF a < b THEN a ELSE b

Max(a, b) == IF a > b THEN a ELSE b

Clamp(i, n) == Max(0, Min(i, n))

\* const v = ...; followed by the code F that reads v
With(v, F(_)) == F(v)

\* String.prototype.slice(i, j), 0 <= i, j
Slice(t, i, j) == SubSeq(t, Clamp(i, Len(t)) + 1, Clamp(j, Len(t)))

\* String.prototype.slice(i)
SliceFrom(t, i) == Slice(t, i, Len(t))

\* String.prototype.substring(i, j): clamps, and swaps when i > j
Substring(t, i, j) ==
  With(Clamp(i, Len(t)), LAMBDA a :
  With(Clamp(j, Len(t)), LAMBDA b :
    SubSeq(t, Min(a, b) + 1, Max(a, b))))

\* String.prototype.substring(i)
SubstringFrom(t, i) == Substring(t, i, Len(t))

\* String.prototype.indexOf(c, from): the first position >= from holding c, or -1
RECURSIVE IndexOf(_, _, _)
IndexOf(t, c, from) ==
  IF from >= Len(t) THEN -1
  ELSE IF At(t, from) = c THEN from
  ELSE IndexOf(t, c, from + 1)

\* the first position >= p that holds no white space (Len(t) when there is none)
RECURSIVE SkipWs(_, _)
SkipWs(t, p) ==
  IF p >= Len(t) THEN Len(t)
  ELSE IF IsWs(At(t, p)) THEN SkipWs(t, p + 1)
  ELSE p

\* the last position < p that holds no white space, plus one (0 when there is none)
RECURSIVE SkipWsBack(_, _)
SkipWsBack(t, p) ==
  IF p <= 0 THEN 0
  ELSE IF IsWs(At(t, p - 1)) THEN SkipWsBack(t, p - 1)
  ELSE p

\* String.prototype.trim
Trim(t) ==
  With(SkipWs(t, 0), LAMBDA a :
    IF a >= Len(t) THEN <<>> ELSE Slice(t, a, SkipWsBack(t, Len(t))))

\* String.prototype.split("\n"): always at least one line
RECURSIVE Split(_)
Split(t) ==
  With(IndexOf(t, NL, 0), LAMBDA i :
    IF i = -1 THEN <<t>>
    ELSE <<Slice(t, 0, i)>> \o Split(SliceFrom(t, i + 1)))

\* Array.prototype.join("\n")
RECURSIVE Join(_)
Join(lines) ==
  IF Len(lines) = 0 THEN <<>>
  ELSE IF Len(lines) = 1 THEN lines[1]
  ELSE lines[1] \o <<NL>> \o Join(Tail(lines))

\* replace(/\n{3,}/g, "\n\n"): of every maximal run of line breaks, the third and
\* later ones are dropped
RECURSIVE CollapseFrom(_, _)
CollapseFrom(t, i) ==
  IF i >= Len(t) THEN <<>>
  ELSE IF i >= 2 /\ At(t, i) = NL /\ At(t, i - 1) = NL /\ At(t, i - 2) = NL
       THEN CollapseFrom(t, i + 1)
  ELSE <<At(t, i)>> \o CollapseFrom(t, i + 1)

\* CollapseBlankLines without its replace: the text as it is
CollapseNothing(t) == t

CollapseBlankLines(t) == CollapseFrom(t, 0)

\* Array.prototype.splice(start, deleteCount, ...items) on the array of lines
Splice(lines, start, deleteCount, items) ==
  SubSeq(lines, 1, start) \o items \o SubSeq(lines, start + deleteCount + 1, Len(lines))

\* ------------------------------------------- findTopLevelFunctionRange

NoRange == [found |-> FALSE, start |-> 0, end |-> 0]

\* /(^|\n)\s*function\s+NAME\s*\(/ tried at position i: group 1 is empty at the
\* start of the text and the line break at i elsewhere.  NAME is the escaped
\* name, so it matches the name literally.
MatchGroup1Len(t, i) == IF i = 0 THEN 0 ELSE 1

PatternMatchesAt(t, name, i) ==
  /\ i < Len(t) \/ i = 0
  /\ i = 0 \/ At(t, i) = NL
  /\ With(SkipWs(t, i + MatchGroup1Len(t, i)), LAMBDA p1 :
     With(SkipWs(t, p1 + 1), LAMBDA p3 :
     With(SkipWs(t, p3 + Len(name)), LAMBDA p4 :
       /\ p1 < Len(t) /\ At(t, p1) = "function"
       /\ p1 + 1 < Len(t) /\ IsWs(At(t, p1 + 1))
       /\ p3 + Len(name) <= Len(t) /\ Slice(t, p3, p3 + Len(name)) = name
       /\ p4 < Len(t) /\ At(t, p4) = "(")))

\* pattern.exec(code): the leftmost position the pattern matches at, or -1
RECURSIVE PatternExecFrom(_, _, _)
PatternExecFrom(t, name, i) ==
  IF i > Len(t) \/ (i = Len(t) /\ i > 0) THEN -1
  ELSE IF PatternMatchesAt(t, name, i) THEN i
  ELSE PatternExecFrom(t, name, i + 1)

PatternExec(t, name) == PatternExecFrom(t, name, 0)

\* the brace-depth loop: from position i with the given depth, the position just
\* after the closing brace that brings the depth back to 0, or -1
RECURSIVE BraceScan(_, _, _)
BraceScan(t, i, depth) ==
  IF i >= Len(t) THEN -1
  ELSE IF At(t, i) = "{" THEN BraceScan(t, i + 1, depth + 1)
  ELSE IF At(t, i) = "}"
       THEN IF depth - 1 = 0 THEN i + 1 ELSE BraceScan(t, i + 1, depth - 1)
  ELSE BraceScan(t, i + 1, depth)

findTopLevelFunctionRange(code, name) ==
  With(PatternExec(code, name), LAMBDA m :
    IF m = -1 THEN NoRange
    ELSE
      With(m + MatchGroup1Len(code, m), LAMBDA start :
      With(IndexOf(code, "(", start), LAMBDA openParen :
      With(IF openParen = -1 THEN -1 ELSE IndexOf(code, ")", openParen + 1), LAMBDA closeParen :
      With(IF closeParen = -1 THEN -1 ELSE IndexOf(code, "{", closeParen + 1), LAMBDA openBrace :
      With(IF openBrace = -1 THEN -1 ELSE BraceScan(code, openBrace, 0), LAMBDA end :
        IF end = -1 THEN NoRange
        ELSE [found |-> TRUE, start |-> start, end |-> end]))))))


\* ---------------------------------------------------------------- parser
(***************************************************************************)
(* parser.parse(originalCode) for the JavaScript grammar, on the subset    *)
(* the alphabet can write: function, class and let declarations, export    *)
(* statements, methods and fields of a class, empty and expression         *)
(* statements.  The tree is the list of its nodes in depth-first,          *)
(* left-to-right order (the order a tree cursor visits them); a node        *)
(* records its type, its span as positions of the text, its depth, the     *)
(* field of its parent it fills, and whether it is a named node.            *)
(***************************************************************************)

Keywords == {"function", "class", "let", "export"}

Punctuation == {"(", ")", "{", "}", ";", "="}

\* a documentation comment, one lexeme
DocComment == "/** d */"

Comments == {DocComment}

IsIdent(c) == ~IsWs(c) /\ c \notin Keywords /\ c \notin Punctuation /\ c \notin Comments

Node(type, start, end, depth, field, named) ==
  [type |-> type, start |-> start, end |-> end, depth |-> depth,
   field |-> field, named |-> named]

Token(t, p, depth) == Node(At(t, p), p, p + 1, depth, "", FALSE)

NoParse == [ok |-> FALSE, nodes |-> <<>>, next |-> 0]

Parsed(nodes, next) == [ok |-> TRUE, nodes |-> nodes, next |-> next]

HasAt(t, p, c) == p < Len(t) /\ At(t, p) = c

IdentAt(t, p) == p < Len(t) /\ IsIdent(At(t, p))

\* the position of the parenthesis that closes the one at p, or -1
RECURSIVE ParenScan(_, _, _)
ParenScan(t, i, depth) ==
  IF i >= Len(t) THEN -1
  ELSE IF At(t, i) = "(" THEN ParenScan(t, i + 1, depth + 1)
  ELSE IF At(t, i) = ")"
       THEN IF depth - 1 = 0 THEN i ELSE ParenScan(t, i + 1, depth - 1)
  ELSE ParenScan(t, i + 1, depth)

RECURSIVE ParseStatements(_, _, _)
RECURSIVE ParseStatement(_, _, _, _)
RECURSIVE ParseBlock(_, _, _)
RECURSIVE ParseMembers(_, _, _)

\* formal_parameters closed at position close
ParametersTo(t, p, depth, close) ==
  IF close = -1 THEN NoParse
  ELSE Parsed(<<Node("formal_parameters", p, close + 1, depth, "parameters", TRUE),
                Token(t, p, depth + 1), Token(t, close, depth + 1)>>, close + 1)

\* formal_parameters at p, or NoParse
ParseParameters(t, p, depth) ==
  IF HasAt(t, p, "(") THEN ParametersTo(t, p, depth, ParenScan(t, p, 0)) ELSE NoParse

\* statement_block at p around the statements inner: "{" statements "}"
BlockAround(t, p, depth, inner) ==
  IF ~HasAt(t, inner.next, "}") THEN NoParse
  ELSE Parsed(<<Node("statement_block", p, inner.next + 1, depth, "body", TRUE),
                Token(t, p, depth + 1)>>
              \o inner.nodes \o <<Token(t, inner.next, depth + 1)>>,
              inner.next + 1)

ParseBlock(t, p, depth) ==
  IF ~HasAt(t, p, "{") THEN NoParse
  ELSE BlockAround(t, p, depth, ParseStatements(t, p + 1, depth + 1))

\* the block that follows the parameters, NoParse when either is missing
BlockAfter(t, params, depth) ==
  IF params.ok THEN ParseBlock(t, SkipWs(t, params.next), depth) ELSE NoParse

\* a node of the given type from p over a name at pn, parameters and a body
Callable(type, nameType, p, pn, depth, field, params, body) ==
  IF body.ok
  THEN Parsed(<<Node(type, p, body.next, depth, field, TRUE)>>
              \o (IF pn = p THEN <<>> ELSE <<Node("function", p, p + 1, depth + 1, "", FALSE)>>)
              \o <<Node(nameType, pn, pn + 1, depth + 1, "name", TRUE)>>
              \o params.nodes \o body.nodes, body.next)
  ELSE NoParse

\* parameters from pp and the body after them, under a node that starts at p
CallableFrom(type, nameType, t, p, pn, depth, field, params) ==
  Callable(type, nameType, p, pn, depth, field, params, BlockAfter(t, params, depth + 1))

\* function_declaration at p: "function" name parameters body
FunctionNamed(t, p, pn, depth, field) ==
  IF HasAt(t, p, "function") /\ pn > p + 1 /\ IdentAt(t, pn)
  THEN CallableFrom("function_declaration", "identifier", t, p, pn, depth, field,
                    ParseParameters(t, SkipWs(t, pn + 1), depth + 1))
  ELSE NoParse

ParseFunction(t, p, depth, field) == FunctionNamed(t, p, SkipWs(t, p + 1), depth, field)

\* field_definition at q whose value is the class expression at pc, with its
\* body at pb: name "=" "class" "{" members "}"
ClassValueAround(t, q, pe, pc, pb, depth, members) ==
  IF members.ok /\ HasAt(t, members.next, "}")
  THEN Parsed(<<Node("field_definition", q, members.next + 1, depth, "", TRUE),
                Node("property_identifier", q, q + 1, depth + 1, "property", TRUE),
                Token(t, pe, depth + 1),
                Node("class", pc, members.next + 1, depth + 1, "value", TRUE),
                Token(t, pc, depth + 2),
                Node("class_body", pb, members.next + 1, depth + 2, "body", TRUE),
                Token(t, pb, depth + 3)>>
              \o members.nodes \o <<Token(t, members.next, depth + 3)>>,
              members.next + 1)
  ELSE NoParse

ClassValueNamed(t, q, pe, pc, pb, depth) ==
  IF IdentAt(t, q) /\ HasAt(t, pe, "=") /\ HasAt(t, pc, "class") /\ HasAt(t, pb, "{")
  THEN ClassValueAround(t, q, pe, pc, pb, depth, ParseMembers(t, pb + 1, depth + 3))
  ELSE NoParse

ClassValueFrom(t, q, pe, pc, depth) == ClassValueNamed(t, q, pe, pc, SkipWs(t, pc + 1), depth)

\* a field whose value is a class expression, at q
ParseClassValue(t, q, pe, depth) == ClassValueFrom(t, q, pe, SkipWs(t, pe + 1), depth)

\* a member at q that is no method: a field, a semicolon
FieldFrom(t, q, depth, classValue) ==
  IF classValue.ok THEN classValue
  ELSE IF IdentAt(t, q)
  THEN Parsed(<<Node("field_definition", q, q + 1, depth, "", TRUE),
                Node("property_identifier", q, q + 1, depth + 1, "property", TRUE)>>, q + 1)
  ELSE IF At(t, q) = ";" THEN Parsed(<<Token(t, q, depth)>>, q + 1)
  ELSE Parsed(<<Node("ERROR", q, q + 1, depth, "", TRUE)>>, q + 1)

\* one member of a class body at q: a method, a field, a semicolon
MemberFrom(t, q, depth, method) ==
  IF method.ok THEN method
  ELSE FieldFrom(t, q, depth, ParseClassValue(t, q, SkipWs(t, q + 1), depth))

ParseMethod(t, q, depth) ==
  IF IdentAt(t, q)
  THEN CallableFrom("method_definition", "property_identifier", t, q, q, depth, "",
                    ParseParameters(t, SkipWs(t, q + 1), depth + 1))
  ELSE NoParse

MembersAfter(member, rest) == Parsed(member.nodes \o rest.nodes, rest.next)

MembersFrom(t, depth, member) == MembersAfter(member, ParseMembers(t, member.next, depth))

MembersAt(t, q, depth) ==
  IF q >= Len(t) \/ At(t, q) = "}" THEN Parsed(<<>>, q)
  ELSE MembersFrom(t, depth, MemberFrom(t, q, depth, ParseMethod(t, q, depth)))

\* the members of a class body from p up to its closing brace
ParseMembers(t, p, depth) == MembersAt(t, SkipWs(t, p), depth)

\* class_declaration at p: "class" name "{" members "}"
ClassAround(t, p, pn, pb, depth, field, members) ==
  IF members.ok /\ HasAt(t, members.next, "}")
  THEN Parsed(<<Node("class_declaration", p, members.next + 1, depth, field, TRUE),
                Token(t, p, depth + 1),
                Node("identifier", pn, pn + 1, depth + 1, "name", TRUE),
                Node("class_body", pb, members.next + 1, depth + 1, "body", TRUE),
                Token(t, pb, depth + 2)>>
              \o members.nodes \o <<Token(t, members.next, depth + 2)>>,
              members.next + 1)
  ELSE NoParse

ClassNamed(t, p, pn, pb, depth, field) ==
  IF HasAt(t, p, "class") /\ pn > p + 1 /\ IdentAt(t, pn) /\ HasAt(t, pb, "{")
  THEN ClassAround(t, p, pn, pb, depth, field, ParseMembers(t, pb + 1, depth + 2))
  ELSE NoParse

ClassAt(t, p, pn, depth, field) == ClassNamed(t, p, pn, SkipWs(t, pn + 1), depth, field)

ParseClass(t, p, depth, field) == ClassAt(t, p, SkipWs(t, p + 1), depth, field)

\* lexical_declaration at p: "let" name, and the semicolon at ps when one follows
LexicalNamed(t, p, pn, ps, depth, field) ==
  IF HasAt(t, p, "let") /\ pn > p + 1 /\ IdentAt(t, pn)
  THEN Parsed(<<Node("lexical_declaration", p, IF HasAt(t, ps, ";") THEN ps + 1 ELSE pn + 1,
                     depth, field, TRUE),
                Token(t, p, depth + 1),
                Node("variable_declarator", pn, pn + 1, depth + 1, "", TRUE),
                Node("identifier", pn, pn + 1, depth + 2, "name", TRUE)>>
              \o (IF HasAt(t, ps, ";") THEN <<Token(t, ps, depth + 1)>> ELSE <<>>),
              IF HasAt(t, ps, ";") THEN ps + 1 ELSE pn + 1)
  ELSE NoParse

LexicalAt(t, p, pn, depth, field) == LexicalNamed(t, p, pn, SkipWs(t, pn + 1), depth, field)

ParseLexical(t, p, depth, field) == LexicalAt(t, p, SkipWs(t, p + 1), depth, field)

\* a declaration at p, filling the given field of its parent
ParseDeclaration(t, p, depth, field) ==
  IF HasAt(t, p, "function") THEN ParseFunction(t, p, depth, field)
  ELSE IF HasAt(t, p, "class") THEN ParseClass(t, p, depth, field)
  ELSE IF HasAt(t, p, "let") THEN ParseLexical(t, p, depth, field)
  ELSE NoParse

\* export_statement at p around the declaration it exports
ExportAround(t, p, depth, field, exported) ==
  IF exported.ok
  THEN Parsed(<<Node("export_statement", p, exported.next, depth, field, TRUE),
                Token(t, p, depth + 1)>> \o exported.nodes, exported.next)
  ELSE Parsed(<<Node("ERROR", p, p + 1, depth, field, TRUE)>>, p + 1)

\* a statement at p that is no declaration
OtherStatement(t, p, depth, field) ==
  IF At(t, p) = ";"
  THEN Parsed(<<Node("empty_statement", p, p + 1, depth, field, TRUE),
                Token(t, p, depth + 1)>>, p + 1)
  ELSE IF At(t, p) \in Comments
  THEN Parsed(<<Node("comment", p, p + 1, depth, field, TRUE)>>, p + 1)
  ELSE IF IsIdent(At(t, p))
  THEN Parsed(<<Node("expression_statement", p, IF HasAt(t, p + 1, ";") THEN p + 2 ELSE p + 1,
                     depth, field, TRUE),
                Node("identifier", p, p + 1, depth + 1, "", TRUE)>>
              \o (IF HasAt(t, p + 1, ";") THEN <<Token(t, p + 1, depth + 1)>> ELSE <<>>),
              IF HasAt(t, p + 1, ";") THEN p + 2 ELSE p + 1)
  ELSE Parsed(<<Node("ERROR", p, p + 1, depth, field, TRUE)>>, p + 1)

StatementFrom(t, p, depth, field, decl) ==
  IF decl.ok THEN decl ELSE OtherStatement(t, p, depth, field)

\* one statement at p (p holds no white space and no closing brace)
ParseStatement(t, p, depth, field) ==
  With(HasAt(t, p, "export"), LAMBDA exports :
  With(IF exports THEN SkipWs(t, p + 1) ELSE p, LAMBDA pd :
  With(ParseDeclaration(t, pd, IF exports THEN depth + 1 ELSE depth,
                        IF exports THEN "declaration" ELSE field), LAMBDA decl :
    IF exports
    THEN ExportAround(t, p, depth, field, IF pd > p + 1 THEN decl ELSE NoParse)
    ELSE StatementFrom(t, p, depth, field, decl))))

StatementsAfter(s, rest) == Parsed(s.nodes \o rest.nodes, rest.next)

StatementsFrom(t, depth, s) == StatementsAfter(s, ParseStatements(t, s.next, depth))

StatementsAt(t, q, depth) ==
  IF q >= Len(t) \/ At(t, q) = "}" THEN Parsed(<<>>, q)
  ELSE StatementsFrom(t, depth, ParseStatement(t, q, depth, ""))

\* the statements from p up to a closing brace or the end of the text
ParseStatements(t, p, depth) == StatementsAt(t, SkipWs(t, p), depth)

\* the statements of the whole text; a closing brace no block opened is an ERROR
RECURSIVE ParseTop(_, _)
TopFrom(t, s) ==
  IF s.next >= Len(t) THEN s.nodes
  ELSE s.nodes \o <<Node("ERROR", s.next, s.next + 1, 1, "", TRUE)>> \o ParseTop(t, s.next + 1)

ParseTop(t, p) == TopFrom(t, ParseStatements(t, p, 1))

ProgramNode(t, first) ==
  Node("program", IF first >= Len(t) THEN 0 ELSE first,
       IF first >= Len(t) THEN 0 ELSE SkipWsBack(t, Len(t)), 0, "", TRUE)

\* parser.parse(text): the program node, then its descendants
Parse(t) == <<ProgramNode(t, SkipWs(t, 0))>> \o ParseTop(t, 0)

\* ------------------------------------------------------- tree accessors

\* node.startPosition / node.endPosition of a position of the text
Position(code, off) ==
  With(Split(Slice(code, 0, off)), LAMBDA lines :
    [row |-> Len(lines) - 1, column |-> Len(lines[Len(lines)])])

\* the index of the last node of the subtree of node k
RECURSIVE SubtreeEndFrom(_, _, _)
SubtreeEndFrom(tree, k, j) ==
  IF j + 1 <= Len(tree) /\ tree[j + 1].depth > tree[k].depth
  THEN SubtreeEndFrom(tree, k, j + 1)
  ELSE j

SubtreeEnd(tree, k) == SubtreeEndFrom(tree, k, k)

InSubtree(tree, k, j) == k <= j /\ j <= SubtreeEnd(tree, k)

IsChild(tree, k, j) == InSubtree(tree, k, j) /\ tree[j].depth = tree[k].depth + 1

\* the least element of a set of indices, 0 (no node) when it is empty
FirstOf(S) == IF S = {} THEN 0 ELSE CHOOSE i \in S : \A j \in S : i <= j

\* node.childForFieldName(field): 0 is null
childForFieldName(tree, k, field) ==
  FirstOf({j \in k..Len(tree) : IsChild(tree, k, j) /\ tree[j].field = field})

\* node.namedChild(0)
namedChild0(tree, k) ==
  FirstOf({j \in k..Len(tree) : IsChild(tree, k, j) /\ tree[j].named})

\* node.descendantsOfType(type)[0]
descendantsOfType0(tree, k, type) ==
  FirstOf({j \in k..Len(tree) : InSubtree(tree, k, j) /\ tree[j].type = type})

\* node.text
NodeText(code, n) == Slice(code, n.start, n.end)

NoSymbol ==
  [found |-> FALSE, node |-> 0, startPosition |-> [row |-> 0, column |-> 0],
   endPosition |-> [row |-> 0, column |-> 0], text |-> <<>>]

createSymbolInfo(tree, code, k) ==
  [found |-> TRUE, node |-> k,
   startPosition |-> Position(code, tree[k].start),
   endPosition |-> Position(code, tree[k].end),
   text |-> NodeText(code, tree[k])]

\* ------------------------------------------- findSymbol, findSymbolInClass

ClassTypes == {"class_declaration", "class_definition"}

\* symbolTypes[symbolType] || [symbolType] of findSymbol
findSymbolTargetTypes(symbolType) ==
  CASE symbolType = <<"function">> -> {"function_declaration", "function_definition"}
    [] symbolType = <<"class">> -> ClassTypes
    [] symbolType = <<"variable">> ->
         {"variable_declarator", "lexical_declaration", "variable_declaration"}
    [] symbolType = <<"method">> -> {"method_definition"}
    [] symbolType = <<"export">> -> {"export_statement"}
    [] symbolType = <<"constructor">> -> {"method_definition"}
    [] symbolType = <<"property">> -> {"property_definition", "field_definition"}
    [] OTHER -> IF Len(symbolType) = 1 THEN {symbolType[1]} ELSE {}

\* whether traverse returns createSymbolInfo(node) at node k
\* the node whose name is looked up: for an export statement its declaration,
\* for a lexical or variable declaration its first declarator, else the node
NameHolder(tree, k) ==
  IF tree[k].type = "export_statement"
  THEN With(childForFieldName(tree, k, "declaration"), LAMBDA declaration :
         IF declaration # 0 THEN declaration ELSE k)
  ELSE IF tree[k].type \in {"lexical_declaration", "variable_declaration"}
  THEN With(descendantsOfType0(tree, k, "variable_declarator"), LAMBDA declarator :
         IF declarator # 0 THEN declarator ELSE k)
  ELSE k

\* the test on nameNode: the constructor case, else the name (of namedChild(0)
\* when nameNode is null)
NameMatches(tree, code, k, nameNode, symbolName, symbolType) ==
  \/ /\ tree[k].type = "method_definition"
     /\ symbolType = <<"constructor">>
     /\ nameNode # 0
     /\ NodeText(code, tree[nameNode]) = <<"constructor">>
  \/ With(IF nameNode = 0 THEN namedChild0(tree, k) ELSE nameNode, LAMBDA resolved :
        resolved # 0 /\ NodeText(code, tree[resolved]) = symbolName)

findSymbolHit(tree, code, k, symbolName, symbolType) ==
  /\ tree[k].type \in findSymbolTargetTypes(symbolType)
  /\ NameMatches(tree, code, k, childForFieldName(tree, NameHolder(tree, k), "name"),
                 symbolName, symbolType)

\* the cursor walk returns at the first node, in depth-first order, that hits
findSymbol(tree, code, symbolName, symbolType) ==
  With(FirstOf({j \in 1..Len(tree) : findSymbolHit(tree, code, j, symbolName, symbolType)}),
       LAMBDA k : IF k = 0 THEN NoSymbol ELSE createSymbolInfo(tree, code, k))

\* symbolTypes[symbolType] || [symbolType] of findSymbolInClass
findSymbolInClassTargetTypes(symbolType) ==
  CASE symbolType = <<"method">> -> {"method_definition"}
    [] symbolType = <<"constructor">> -> {"method_definition"}
    [] symbolType = <<"property">> ->
         {"property_definition", "field_definition", "method_definition"}
    [] OTHER -> IF Len(symbolType) = 1 THEN {symbolType[1]} ELSE {}

findSymbolInClassHit(tree, code, k, symbolName, symbolType) ==
  /\ tree[k].type \in findSymbolInClassTargetTypes(symbolType)
  /\ NameMatches(tree, code, k, childForFieldName(tree, k, "name"), symbolName, symbolType)

\* the nodes the walk rooted at class node c visits: its subtree, without the
\* subtrees of the class nodes below c
VisitedInClass(tree, c) ==
  {j \in c..Len(tree) :
     /\ InSubtree(tree, c, j)
     /\ \A a \in (c + 1)..j : ~(tree[a].type \in ClassTypes /\ InSubtree(tree, a, j))}

findSymbolInClass(tree, code, c, symbolName, symbolType) ==
  With(FirstOf({j \in VisitedInClass(tree, c) :
                  findSymbolInClassHit(tree, code, j, symbolName, symbolType)}),
       LAMBDA k : IF k = 0 THEN NoSymbol ELSE createSymbolInfo(tree, code, k))

\* ---------------------------------------------------------- text splice

\* replaceSymbolLines without the suffix of the last line of the range
replaceSymbolLinesDropsSuffix(lines, startLine, endLine, firstLine, lastLine, split) ==
  With([split EXCEPT ![1] = firstLine \o split[1]], LAMBDA withFirst :
    Join(Splice(lines, startLine, endLine - startLine + 1, withFirst)))

\* the branch of replaceSymbol for a symbol that spans several lines
replaceSymbolLines(lines, startLine, endLine, firstLine, lastLine, split) ==
  With([split EXCEPT ![1] = firstLine \o split[1]], LAMBDA withFirst :
    Join(Splice(lines, startLine, endLine - startLine + 1,
                [withFirst EXCEPT ![Len(withFirst)] = withFirst[Len(withFirst)] \o lastLine])))

replaceSymbolIn(lines, startLine, endLine, startColumn, endColumn, newContent) ==
  IF startLine = endLine
  THEN Join([lines EXCEPT ![startLine + 1] =
               Substring(lines[startLine + 1], 0, startColumn) \o newContent
                 \o SubstringFrom(lines[startLine + 1], endColumn)])
  ELSE replaceSymbolLines(lines, startLine, endLine,
                          Substring(lines[startLine + 1], 0, startColumn),
                          SubstringFrom(lines[endLine + 1], endColumn),
                          Split(newContent))

replaceSymbol(originalCode, existingSymbol, newContent) ==
  replaceSymbolIn(Split(originalCode),
                  existingSymbol.startPosition.row, existingSymbol.endPosition.row,
                  existingSymbol.startPosition.column, existingSymbol.endPosition.column,
                  newContent)

\* the branch of deleteSymbol for a symbol that starts in column 0: its lines are
\* removed, then one of two blank lines left around the place
deleteSymbolLines(removed, startLine) ==
  IF /\ startLine > 0
     /\ startLine < Len(removed)
     /\ Trim(removed[startLine + 1]) = <<>>
     /\ Trim(removed[startLine]) = <<>>
  THEN Join(Splice(removed, startLine, 1, <<>>))
  ELSE Join(removed)

\* deleteSymbol leaving the text as it is
deleteSymbolKeepsSymbol(originalCode, existingSymbol) == originalCode

\* deleteSymbol whose fallback returns the replaced text as it is
deleteSymbolWithoutCollapse(originalCode, existingSymbol) ==
  IF existingSymbol.startPosition.column = 0
  THEN deleteSymbolLines(Splice(Split(originalCode), existingSymbol.startPosition.row,
                                existingSymbol.endPosition.row
                                  - existingSymbol.startPosition.row + 1, <<>>),
                         existingSymbol.startPosition.row)
  ELSE replaceSymbol(originalCode, existingSymbol, <<>>)

deleteSymbol(originalCode, existingSymbol) ==
  IF existingSymbol.startPosition.column = 0
  THEN deleteSymbolLines(Splice(Split(originalCode), existingSymbol.startPosition.row,
                                existingSymbol.endPosition.row
                                  - existingSymbol.startPosition.row + 1, <<>>),
                         existingSymbol.startPosition.row)
  ELSE CollapseBlankLines(replaceSymbol(originalCode, existingSymbol, <<>>))

\* line.match(/^(\s*)/)[1]
getIndentation(line) == Slice(line, 0, SkipWs(line, 0))

IndentLine(contentIndent, line) == IF Trim(line) # <<>> THEN contentIndent \o line ELSE line

\* createSymbolInClassLine with the closing brace in column 0
createSymbolInClassLineBraceFirst(lastLine, classEndColumn, classIndent, contentLines) ==
  Substring(lastLine, 0, classEndColumn - 1) \o <<NL>>
    \o Join([i \in 1..Len(contentLines) |->
               IndentLine(classIndent \o <<SP, SP>>, contentLines[i])])
    \o <<NL>> \o SubstringFrom(lastLine, classEndColumn - 1)

\* the line of the closing brace of the class, rebuilt around the new member
createSymbolInClassLine(lastLine, classEndColumn, classIndent, contentLines) ==
  Substring(lastLine, 0, classEndColumn - 1) \o <<NL>>
    \o Join([i \in 1..Len(contentLines) |->
               IndentLine(classIndent \o <<SP, SP>>, contentLines[i])])
    \o <<NL>> \o classIndent \o SubstringFrom(lastLine, classEndColumn - 1)

createSymbolInClassIn(lines, classSymbol, content) ==
  Join([lines EXCEPT ![classSymbol.endPosition.row + 1] =
          createSymbolInClassLine(lines[classSymbol.endPosition.row + 1],
                                  classSymbol.endPosition.column,
                                  getIndentation(lines[classSymbol.startPosition.row + 1]),
                                  Split(content))])

createSymbolInClass(originalCode, classSymbol, content) ==
  createSymbolInClassIn(Split(originalCode), classSymbol, content)

\* ------------------------------------------------------- execute: values

\* a parameter that was not passed
Undefined == <<"<undefined>">>

\* what getFile and exists see of a path that holds no file
Absent == <<"<absent>">>

\* JavaScript truthiness of a string parameter: neither undefined nor ""
Truthy(v) == v # Undefined /\ v # <<>>

\* the position of the last c in t, or -1
RECURSIVE LastIndexOf(_, _, _)
LastIndexOf(t, c, from) ==
  IF from < 0 THEN -1
  ELSE IF At(t, from) = c THEN from
  ELSE LastIndexOf(t, c, from - 1)

\* path.extname: from the last "." of the last path segment, "" when that
\* segment has no "." or only a leading one
extname(filePath) ==
  With(LastIndexOf(filePath, "/", Len(filePath) - 1) + 1, LAMBDA base :
  With(LastIndexOf(filePath, ".", Len(filePath) - 1), LAMBDA dot :
    IF dot = -1 \/ dot <= base THEN <<>> ELSE SliceFrom(filePath, dot)))

Ext(e) == <<".", e>>

\* the supported list with ".txt" added to it
supportedWithText ==
  {Ext("js"), Ext("jsx"), Ext("ts"), Ext("tsx"), Ext("py"), Ext("c"), Ext("cpp"),
   Ext("h"), Ext("hpp"), Ext("hxx"), Ext("cxx"), Ext("txt")}

\* const supported = [...]
supported ==
  {Ext("js"), Ext("jsx"), Ext("ts"), Ext("tsx"), Ext("py"), Ext("c"), Ext("cpp"),
   Ext("h"), Ext("hpp"), Ext("hxx"), Ext("cxx")}

\* the extensions of the fast path
fastPathExtensions == {Ext("js"), Ext("jsx"), Ext("ts"), Ext("tsx")}

\* loadLanguage(ext): the grammar, "null" when the extension has none or the
\* import of the grammar fails
loadLanguage(ext, imports) ==
  IF ext \in {Ext("js"), Ext("jsx"), Ext("ts"), Ext("tsx")}
  THEN IF imports THEN "javascript" ELSE "null"
  ELSE IF ext = Ext("py")
  THEN IF imports THEN "python" ELSE "null"
  ELSE IF ext \in {Ext("h"), Ext("c"), Ext("hxx"), Ext("cxx"), Ext("hpp"), Ext("cpp")}
  THEN IF imports THEN "cpp" ELSE "null"
  ELSE "null"

symbolDescription(q) ==
  IF Truthy(q.parentClass)
  THEN q.symbolType \o <<" '">> \o q.symbolName \o <<"' in class '">> \o q.parentClass \o <<"'">>
  ELSE q.symbolType \o <<" '">> \o q.symbolName \o <<"'">>

\* the strings execute returns
MissingParametersError ==
  <<"Error: Missing required parameters. Please provide path, symbolName, symbolType, and content.">>

\* the message of a missing file without the path in it
FileNotFoundErrorUnnamed(filePath) ==
  <<"Error: File ">> \o <<" not found. Please create the file first.">>

FileNotFoundError(filePath) ==
  <<"Error: File ">> \o filePath \o <<" not found. Please create the file first.">>

UnsupportedFileTypeError(filePath) ==
  <<"Error: Unsupported file type for ">> \o filePath
    \o <<". Supported: .js, .jsx, .ts, .tsx, .py, .c, .cpp, .h, .hpp">>

ParserLoadError(filePath) == <<"Error: Failed to load parser for ">> \o filePath

ParentClassNotFoundError(parentClass, filePath) ==
  <<"Error: Parent class '">> \o parentClass \o <<"' not found in ">> \o filePath \o <<".">>

GenerateError == <<"Error: Failed to generate modified code.">>

WriteError(filePath) == <<"Error: Failed to write changes to ">> \o filePath

SuccessMessage(q) == symbolDescription(q) \o <<" successfully modified">>

NoResult == <<>>

\* ------------------------------------------------ execute: the edit itself
(***************************************************************************)
(* What execute does between the return of getFile and its call of         *)
(* writeFile (or its return): the text to write, or the error returned.    *)
(***************************************************************************)

ToWrite(text) == [write |-> TRUE, newCode |-> text, result |-> NoResult]

ToReturn(message) == [write |-> FALSE, newCode |-> <<>>, result |-> message]

\* appendToFile with the new content first and the original text second
appendToFileSwapped(originalCode, content) ==
  With(Trim(originalCode), LAMBDA trimmed :
    IF trimmed = <<>> THEN Trim(content) ELSE Trim(content) \o <<NL>> \o trimmed)

\* the Create-at-top-level policy (lines 69-73 and 139-143)
appendToFile(originalCode, content) ==
  With(Trim(originalCode), LAMBDA trimmed :
    IF trimmed = <<>> THEN Trim(content) ELSE trimmed \o <<NL>> \o Trim(content))

\* lines 57-74
fastPath(originalCode, symbolName, content) ==
  With(findTopLevelFunctionRange(originalCode, symbolName), LAMBDA range :
    IF range.found
    THEN With(Slice(originalCode, 0, range.start) \o content
                \o SliceFrom(originalCode, range.end), LAMBDA spliced :
           IF content = <<>> THEN CollapseBlankLines(spliced) ELSE spliced)
    ELSE appendToFile(originalCode, content))

takesFastPath(q) ==
  /\ ~Truthy(q.parentClass)
  /\ q.symbolType = <<"function">>
  /\ extname(q.path) \in fastPathExtensions

\* editInClass falling back to the top-level append when the class is not found
editInClassAppends(originalCode, tree, q, classSymbol) ==
  IF ~classSymbol.found
  THEN ToWrite(appendToFile(originalCode, q.content))
  ELSE With(findSymbolInClass(tree, originalCode, classSymbol.node, q.symbolName, q.symbolType),
            LAMBDA existingSymbol :
              ToWrite(IF existingSymbol.found
                      THEN replaceSymbol(originalCode, existingSymbol, q.content)
                      ELSE createSymbolInClass(originalCode, classSymbol, q.content)))

\* lines 120-129: the member of the parent class is replaced or created
editInClass(originalCode, tree, q, classSymbol) ==
  IF ~classSymbol.found
  THEN ToReturn(ParentClassNotFoundError(q.parentClass, q.path))
  ELSE With(findSymbolInClass(tree, originalCode, classSymbol.node, q.symbolName, q.symbolType),
            LAMBDA existingSymbol :
              ToWrite(IF existingSymbol.found
                      THEN replaceSymbol(originalCode, existingSymbol, q.content)
                      ELSE createSymbolInClass(originalCode, classSymbol, q.content)))

\* lines 130-144: the top-level symbol is deleted, replaced or appended
editAtTopLevel(originalCode, q, existingSymbol) ==
  ToWrite(IF existingSymbol.found
          THEN IF q.content = <<>>
               THEN deleteSymbol(originalCode, existingSymbol)
               ELSE replaceSymbol(originalCode, existingSymbol, q.content)
          ELSE appendToFile(originalCode, q.content))

\* lines 107-145: findSymbol looks for the parent class when one is given, else
\* for the symbol itself
treePath(originalCode, tree, q) ==
  With(Truthy(q.parentClass), LAMBDA inClass :
  With(findSymbol(tree, originalCode,
                  IF inClass THEN q.parentClass ELSE q.symbolName,
                  IF inClass THEN <<"class">> ELSE q.symbolType), LAMBDA found :
    IF inClass
    THEN editInClass(originalCode, tree, q, found)
    ELSE editAtTopLevel(originalCode, q, found)))

\* lines 147-149: if (!newCode)
checkGenerated(generated) ==
  IF generated.write /\ generated.newCode = <<>> THEN ToReturn(GenerateError) ELSE generated

\* lines 56-149
edit(originalCode, q) ==
  IF takesFastPath(q)
  THEN ToWrite(fastPath(originalCode, q.symbolName, q.content))
  ELSE IF ~q.parserLoads
  THEN ToReturn(ParserLoadError(q.path))
  ELSE IF loadLanguage(extname(q.path), q.grammarLoads) = "null"
  THEN ToReturn(UnsupportedFileTypeError(q.path))
  ELSE checkGenerated(treePath(originalCode, Parse(originalCode), q))


\* ------------------------------------------- RepoMapService: functions
(***************************************************************************)
(* The repo map service (src/RepoMapService.js): loadLanguage,             *)
(* extractSymbols and formatFileOutput.  A symbol is a record of its name, *)
(* kind, signature, line (1-based) and parentClass (Undefined for none).   *)
(***************************************************************************)

\* RepoMapService.loadLanguage(ext): the grammar, "null" when the switch has no
\* case for the extension
RepoMapService_loadLanguage(ext) ==
  IF ext = Ext("js") THEN "javascript"
  ELSE IF ext = Ext("py") THEN "python"
  ELSE IF ext \in {Ext("h"), Ext("c"), Ext("hxx"), Ext("cxx"), Ext("hpp"), Ext("cpp")}
  THEN "cpp"
  ELSE "null"

\* kinds[node.type], Undefined for a type the table does not hold
kinds(type) ==
  CASE type = "program" -> <<"program">>
    [] type \in {"function_declaration", "function_definition"} -> <<"function">>
    [] type = "method_definition" -> <<"method">>
    [] type \in {"class_declaration", "class_definition"} -> <<"class">>
    [] type = "struct_specifier" -> <<"struct">>
    [] type \in {"variable_declarator", "lexical_declaration"} -> <<"variable">>
    [] type = "export_statement" -> <<"export">>
    [] OTHER -> Undefined

\* lines 211-213: the name field of node k, else its first named child
idNodeOf(tree, k) ==
  With(childForFieldName(tree, k, "name"), LAMBDA idNode :
    IF idNode # 0 THEN idNode ELSE namedChild0(tree, k))

\* the class whose symbol is parentSymbol when the traversal is at node k: a
\* class recorded at depth 1 (lines 226-235) hands its symbol down to all the
\* nodes below it; 0 when parentSymbol is null
parentSymbolOf(tree, k) ==
  FirstOf({j \in 1..k : /\ j # k
                        /\ InSubtree(tree, j, k)
                        /\ tree[j].depth = 1
                        /\ kinds(tree[j].type) = <<"class">>
                        /\ idNodeOf(tree, j) # 0})

\* the traversal returns from node k without visiting its children: lines 157,
\* 185 and 206
ReturnsEarly(tree, k) ==
  \/ tree[k].type \in {"export_statement", "lexical_declaration"}
  \/ tree[k].type = "method_definition" /\ parentSymbolOf(tree, k) # 0

\* the traversal reaches node k
Traversed(tree, k) ==
  \A j \in 1..k : j # k /\ InSubtree(tree, j, k) => ~ReturnsEarly(tree, j)

NoRecord == [idNode |-> 0, actualNode |-> 0, kind |-> Undefined, parentClass |-> 0]

Record(idNode, actualNode, kind, parentClass) ==
  [idNode |-> idNode, actualNode |-> actualNode, kind |-> kind, parentClass |-> parentClass]

\* lines 112-143: the declaration inside export statement k gives the name and
\* the kind, the export statement itself is the node recorded
RecordOfExport(tree, k, declaration) ==
  IF declaration = 0 THEN NoRecord
  ELSE IF tree[declaration].type = "function_declaration"
  THEN Record(childForFieldName(tree, declaration, "name"), k, <<"function">>, 0)
  ELSE IF tree[declaration].type = "class_declaration"
  THEN Record(childForFieldName(tree, declaration, "name"), k, <<"class">>, 0)
  ELSE IF tree[declaration].type \in {"lexical_declaration", "variable_declaration"}
  THEN With(descendantsOfType0(tree, declaration, "variable_declarator"), LAMBDA declarator :
         IF declarator = 0
         THEN Record(childForFieldName(tree, k, "name"), k, <<"export">>, 0)
         ELSE Record(childForFieldName(tree, declarator, "name"), k, <<"variable">>, 0))
  ELSE Record(childForFieldName(tree, k, "name"), k, <<"export">>, 0)

\* lines 166-182: a variable declaration at depth 1 records its first declarator
RecordOfVariable(tree, k, declarator) ==
  IF declarator = 0 THEN NoRecord
  ELSE Record(childForFieldName(tree, declarator, "name"), declarator, kinds(tree[k].type), 0)

\* RecordAt without the tests of the depth
RecordAtAnyDepth(tree, k) ==
  IF kinds(tree[k].type) \in {Undefined, <<"program">>} \/ ~Traversed(tree, k) THEN NoRecord
  ELSE IF tree[k].type = "export_statement"
  THEN RecordOfExport(tree, k, childForFieldName(tree, k, "declaration"))
  ELSE IF tree[k].type = "lexical_declaration"
  THEN RecordOfVariable(tree, k, descendantsOfType0(tree, k, "variable_declarator"))
  ELSE IF tree[k].type = "method_definition" /\ parentSymbolOf(tree, k) # 0
  THEN Record(childForFieldName(tree, k, "name"), k, <<"method">>, parentSymbolOf(tree, k))
  ELSE Record(idNodeOf(tree, k), k, kinds(tree[k].type), 0)

\* what the traversal pushes at node k: the node of the name (0 when it pushes
\* nothing), the node whose line and text are recorded, the kind, and the class
\* node of parentClass (0 for none)
RecordAt(tree, k) ==
  IF kinds(tree[k].type) \in {Undefined, <<"program">>} \/ ~Traversed(tree, k) THEN NoRecord
  ELSE IF tree[k].type = "export_statement"
  THEN IF tree[k].depth = 1
       THEN RecordOfExport(tree, k, childForFieldName(tree, k, "declaration"))
       ELSE NoRecord
  ELSE IF tree[k].type = "lexical_declaration"
  THEN IF tree[k].depth = 1
       THEN RecordOfVariable(tree, k, descendantsOfType0(tree, k, "variable_declarator"))
       ELSE NoRecord
  ELSE IF tree[k].type = "method_definition" /\ parentSymbolOf(tree, k) # 0
  THEN Record(childForFieldName(tree, k, "name"), k, <<"method">>, parentSymbolOf(tree, k))
  ELSE IF tree[k].depth = 1
  THEN Record(idNodeOf(tree, k), k, kinds(tree[k].type), 0)
  ELSE NoRecord

\* actualNode.text.split("\n")[0].slice(0, 120)
signatureOf(code, node) == Slice(Split(NodeText(code, node))[1], 0, 120)

\* the symbol pushed for a record
SymbolFor(tree, code, record) ==
  [name |-> NodeText(code, tree[record.idNode]),
   kind |-> record.kind,
   signature |-> signatureOf(code, tree[record.actualNode]),
   line |-> Position(code, tree[record.actualNode].start).row + 1,
   parentClass |-> IF record.parentClass = 0 THEN Undefined
                   ELSE NodeText(code, tree[idNodeOf(tree, record.parentClass)])]

\* the symbols pushed at the nodes from k on, in the order of the traversal
RECURSIVE extractSymbolsFrom(_, _, _)
extractSymbolsFrom(tree, code, k) ==
  IF k > Len(tree) THEN <<>>
  ELSE With(RecordAt(tree, k), LAMBDA record :
         (IF record.idNode = 0 THEN <<>> ELSE <<SymbolFor(tree, code, record)>>)
           \o extractSymbolsFrom(tree, code, k + 1))

\* extractSymbols(tree, lang); code is the text the tree was parsed from
extractSymbols(tree, code) == extractSymbolsFrom(tree, code, 1)

\* the strings a comment line starts with
CommentStarts == {"//", "*", "/**", "*/"}

\* trimmed.startsWith(prefix): the first lexeme of the line is the prefix or is
\* a comment that begins with it
startsWith(trimmed, prefix) ==
  /\ trimmed # <<>>
  /\ \/ trimmed[1] = prefix
     \/ trimmed[1] = "*/" /\ prefix = "*"
     \/ trimmed[1] = DocComment /\ prefix = "/**"

isCommentOrEmpty(line) ==
  With(Trim(line), LAMBDA trimmed :
    trimmed = <<>> \/ \E prefix \in CommentStarts : startsWith(trimmed, prefix))

\* lines 275-277: back over comment and empty lines, down to -1
RECURSIVE skipBackwards(_, _)
skipBackwards(lines, actualLine) ==
  IF actualLine >= 0 /\ isCommentOrEmpty(lines[actualLine + 1])
  THEN skipBackwards(lines, actualLine - 1)
  ELSE actualLine

\* lines 280-282: forward again; lines[-1] is undefined and its trim() throws
RECURSIVE skipForwards(_, _)
skipForwards(lines, actualLine) ==
  IF actualLine >= Len(lines) THEN [threw |-> FALSE, actualLine |-> actualLine]
  ELSE IF actualLine < 0 THEN [threw |-> TRUE, actualLine |-> actualLine]
  ELSE IF isCommentOrEmpty(lines[actualLine + 1]) THEN skipForwards(lines, actualLine + 1)
  ELSE [threw |-> FALSE, actualLine |-> actualLine]

\* lines 271-285: symbol.actualLine
actualLineOf(lines, symbol) == skipForwards(lines, skipBackwards(lines, symbol.line - 1))

\* Array.from(importantLines): the lines in the order they were first added
RECURSIVE importantLinesFrom(_, _, _)
importantLinesFrom(lines, symbols, i) ==
  IF i > Len(symbols) THEN <<>>
  ELSE With(importantLinesFrom(lines, symbols, i + 1), LAMBDA later :
       With(actualLineOf(lines, symbols[i]).actualLine, LAMBDA startLine :
         <<startLine>> \o SelectSeq(later, LAMBDA l : l # startLine)))

\* sort((a, b) => a - b)
RECURSIVE sortAscending(_)
sortAscending(list) ==
  IF list = <<>> THEN <<>>
  ELSE With(CHOOSE a \in {list[i] : i \in 1..Len(list)} :
              \A i \in 1..Len(list) : a <= list[i], LAMBDA least :
         SelectSeq(list, LAMBDA l : l = least) \o sortAscending(SelectSeq(list, LAMBDA l : l # least)))

\* lines 306-309: one bullet a line
RECURSIVE bullets(_, _)
bullets(lines, sortedImportantLines) ==
  IF sortedImportantLines = <<>> THEN <<>>
  ELSE <<"-", SP>> \o Trim(lines[Head(sortedImportantLines) + 1]) \o <<NL>>
         \o bullets(lines, Tail(sortedImportantLines))

Thrown == [threw |-> TRUE, output |-> <<>>]

\* the output of formatFileOutput for the lines it found important; the trim()
\* of a line that does not exist throws
formatLines(filePath, lines, symbols, importantLines) ==
  IF \/ \E i \in 1..Len(symbols) : actualLineOf(lines, symbols[i]).threw
     \/ \E i \in 1..Len(importantLines) : importantLines[i] >= Len(lines)
  THEN Thrown
  ELSE [threw |-> FALSE,
        output |-> filePath \o <<":", NL>> \o bullets(lines, sortAscending(importantLines))]

\* formatFileOutput(filePath, code, symbols): the output, or that it threw
formatFileOutput(filePath, code, symbols) ==
  formatLines(filePath, Split(code), symbols, importantLinesFrom(Split(code), symbols, 1))

\* ------------------------------------------------------------ the inputs

\* the longest file is this many chunks (declarations, statements, separators)
MaxChunks == 3

FnA == <<"function", SP, "a", "(", ")", "{", "}">>

LetA == <<"let", SP, "a", ";">>

ClsA == <<"class", SP, "A", "{", NL, SP, "m", "(", ")", "{", "}", NL, "}">>

ExpB == <<"export", SP, "function", SP, "b", "(", ")", "{", NL, "}">>

Semi == <<";">>

\* two statements, two blank lines between them
Gap == <<";", NL, NL, NL, ";">>

\* the texts of at most n chunks
RECURSIVE Concats(_, _)
Concats(chunks, n) ==
  IF n = 0 THEN {<<>>}
  ELSE LET shorter == Concats(chunks, n - 1)
       IN  shorter \cup {d \o c : d \in shorter, c \in chunks}

FastChunks == {FnA, Semi, <<NL>>, Gap}

TreeChunks == {LetA, ClsA, ExpB, <<NL>>}

JsPath == <<"f", ".", "js">>

MissingPath == <<"gone", ".", "js">>

AllPaths ==
  {JsPath, MissingPath, <<"f", ".", "tsx">>, <<"f", ".", "py">>, <<"f", ".", "txt">>,
   <<"f">>, <<".", "js">>, <<"d", ".", "js", "/", "f">>}

SymbolTypes ==
  {<<"function">>, <<"class">>, <<"variable">>, <<"method">>, <<"export">>,
   <<"constructor">>, <<"property">>}

OneLine == <<"function", SP, "a", "(", ")", "{", ";", "}">>

MultiLine == <<NL, "n", "(", ")", "{", NL, "}", SP>>

Request(path, symbolName, symbolType, content, parentClass) ==
  [path |-> path, symbolName |-> symbolName, symbolType |-> symbolType,
   content |-> content, parentClass |-> parentClass,
   parserLoads |-> TRUE, grammarLoads |-> TRUE]

\* the text of the declaration the pattern matches in the file, from its
\* "function" keyword; <<>> when the matcher finds no function
DeclarationText(code, name) ==
  With(findTopLevelFunctionRange(code, name), LAMBDA range :
    IF range.found THEN Slice(code, SkipWs(code, range.start), range.end) ELSE <<>>)

\* top-level functions of a JavaScript file: the fast path
FastInputs ==
  {[doc |-> dnc[1], dirty |-> FALSE,
    q |-> Request(JsPath, dnc[2], <<"function">>, dnc[3], Undefined)] :
     dnc \in {<<doc, name, content>> :
                doc \in Concats(FastChunks, MaxChunks),
                name \in {<<"a">>, <<"b">>},
                content \in {<<>>, OneLine, MultiLine}}
              \cup {<<doc, <<"a">>, DeclarationText(doc, <<"a">>)>> :
                      doc \in Concats(FastChunks, MaxChunks)}}

\* a parameter list that holds a call and an object literal
NestedParams ==
  <<"function", SP, "a", "(", "b", "=", "f", "(", ")", ",", "c", "=", "{", "}", ")", "{", "}">>

\* a body that holds the string "{"
BraceInString == <<"function", SP, "a", "(", ")", "{", "\"", "{", "\"", "}">>

\* a function a inside the body of function b, on a line of its own, before
\* the top-level function a
InnerFn ==
  <<"function", SP, "b", "(", ")", "{", NL, SP, "function", SP, "a", "(", ")", "{", "}", NL, "}",
    NL, "function", SP, "a", "(", ")", "{", ";", "}">>

MatcherDocs == {NestedParams, BraceInString, InnerFn, NestedParams \o <<NL>> \o FnA}

\* the fast path on signatures, bodies and nestings the chunks do not write
MatcherInputs ==
  {[doc |-> dnc[1], dirty |-> FALSE,
    q |-> Request(JsPath, dnc[2], <<"function">>, dnc[3], Undefined)] :
     dnc \in {<<doc, name, content>> :
                doc \in MatcherDocs,
                name \in {<<"a">>, <<"b">>},
                content \in {<<>>, OneLine, MultiLine}}}

\* the text findSymbol finds for (name, type) in the file, <<>> when it finds none
CurrentText(code, name, type) == findSymbol(Parse(code), code, name, type).text

TopLevelTargets ==
  {<<<<"a">>, <<"variable">>>>, <<<<"A">>, <<"class">>>>, <<<<"b">>, <<"export">>>>,
   <<<<"m">>, <<"method">>>>, <<<<"b">>, <<"function">>>>, <<<<"z">>, <<"class">>>>}

\* the other symbols of a JavaScript file, no parent class: the tree-sitter path
TreeInputs ==
  UNION {{[doc |-> doc, dirty |-> FALSE,
           q |-> Request(<<"f", ".", "tsx">>, target[1], target[2], content, Undefined)] :
            content \in {<<>>, MultiLine, CurrentText(doc, target[1], target[2])}} :
         doc \in Concats(TreeChunks, MaxChunks), target \in TopLevelTargets}

\* a variable declared after a statement on its line, then two, three and four
\* line breaks
MidLineDocs ==
  {<<";">> \o LetA \o breaks \o <<";">> :
     breaks \in {<<NL, NL>>, <<NL, NL, NL>>, <<NL, NL, NL, NL>>}}

\* the tree-sitter path on a symbol that does not start its line
MidLineInputs ==
  {[doc |-> doc, dirty |-> FALSE,
    q |-> Request(<<"f", ".", "tsx">>, <<"a">>, <<"variable">>, content, Undefined)] :
     doc \in MidLineDocs, content \in {<<>>, MultiLine}}

MemberTargets ==
  {<<<<"m">>, <<"method">>>>, <<<<"m">>, <<"property">>>>, <<<<"n">>, <<"method">>>>}

\* a class that is indented, alone and before a declaration on the line of its
\* closing brace
IndentedClassDocs == {<<SP, SP>> \o ClsA, <<SP>> \o ClsA \o LetA}

\* class A with a field B whose value is a class expression that has a method n
NestedExpression ==
  <<"class", SP, "A", "{", NL, SP, "B", "=", "class", "{", "n", "(", ")", "{", "}", "}", NL, "}">>

\* class A with a method m whose body declares a class B that has a method n
NestedDeclaration ==
  <<"class", SP, "A", "{", NL, SP, "m", "(", ")", "{", "class", SP, "B", "{",
    "n", "(", ")", "{", "}", "}", "}", NL, "}">>

NestedClassDocs == {NestedExpression, NestedDeclaration}

\* the members of a class
ClassInputs ==
  {[doc |-> doc, dirty |-> FALSE,
    q |-> Request(JsPath, target[1], target[2], content, <<"A">>)] :
     doc \in Concats(TreeChunks, MaxChunks) \cup IndentedClassDocs \cup NestedClassDocs,
     target \in MemberTargets,
     content \in {<<>>, MultiLine, <<"m", "(", ")", "{", "}">>}}

ControlDoc == FnA \o Semi \o <<NL>> \o ClsA

\* every path, symbol type and parent class, with and without the parser and
\* the grammar; only a JavaScript file is ever parsed
ControlInputs ==
  {[doc |-> ControlDoc, dirty |-> dirty,
    q |-> [Request(path, name, type, content, parentClass)
             EXCEPT !.parserLoads = loads[1], !.grammarLoads = loads[2]]] :
     dirty \in BOOLEAN,
     path \in AllPaths,
     name \in {<<"a">>, <<"m">>},
     type \in SymbolTypes,
     content \in {<<>>, OneLine},
     parentClass \in {Undefined, <<"A">>, <<"Z">>},
     loads \in {<<TRUE, TRUE>>, <<FALSE, TRUE>>, <<TRUE, FALSE>>}}

ParsedAsJavaScript(inp) ==
  \/ extname(inp.q.path) \in fastPathExtensions
  \/ extname(inp.q.path) \notin supported
  \/ ~inp.q.parserLoads
  \/ ~inp.q.grammarLoads

\* requests that leave a required parameter out, or pass it empty
MissingParameterInputs ==
  {[doc |-> ControlDoc, dirty |-> FALSE, q |-> q] :
     q \in {[Request(JsPath, <<"a">>, <<"function">>, OneLine, Undefined) EXCEPT ![f] = v] :
              f \in {"path", "symbolName", "symbolType", "content"},
              v \in {Undefined, <<>>}}}

Inputs ==
  FastInputs \cup MatcherInputs \cup TreeInputs \cup MidLineInputs \cup ClassInputs
    \cup MissingParameterInputs
    \cup {inp \in ControlInputs : ParsedAsJavaScript(inp)}

\* ----------------------------------------------------- the state machine

Reqs == {"r1"}

VARIABLES
  files,         \* the file system: the text of every path, Absent for no file
  dirty,         \* the workspace dirty flag
  req,           \* the parameters of each request
  pc,            \* where each request is: start, exists, getFile, writeFile, done
  originalCode,  \* each request's originalCode
  newCode,       \* each request's newCode, once generated
  result,        \* the string each request returned
  log,           \* the file system calls served so far, in order
  initial,       \* the files and the dirty flag before the requests
  mapPc,         \* where getMemories is: idle, start, loop, yield, done
  fileSet,       \* the files of the resources, in the order the set iterates them
  cursor,        \* how many files of fileSet the loop has been through
  repoMap,       \* the formatted outputs pushed so far
  memories,      \* the memories getMemories has yielded
  errors         \* the files console.error was called for, in order

\* the variables of the edit tool
toolVars == <<dirty, req, pc, originalCode, newCode, result, log, initial>>

\* the variables of the repo map service
mapVars == <<mapPc, fileSet, cursor, repoMap, memories, errors>>

vars == <<files, toolVars, mapVars>>

\* getMemories has not been called
MapIdle ==
  /\ mapPc = "idle"
  /\ fileSet = <<>>
  /\ cursor = 0
  /\ repoMap = <<>>
  /\ memories = <<>>
  /\ errors = <<>>

Init ==
  \E inp \in Inputs :
    /\ files = [p \in AllPaths |-> IF p = MissingPath THEN Absent ELSE inp.doc]
    /\ dirty = inp.dirty
    /\ req = [r \in Reqs |-> inp.q]
    /\ pc = [r \in Reqs |-> "start"]
    /\ originalCode = [r \in Reqs |-> <<>>]
    /\ newCode = [r \in Reqs |-> <<>>]
    /\ result = [r \in Reqs |-> NoResult]
    /\ log = <<>>
    /\ initial = [files |-> files, dirty |-> dirty]
    /\ MapIdle

\* a call of the file system that request r made, and what it returned (exists:
\* whether the file exists; writeFile: success; getFile: TRUE, the text is in
\* originalCode)
Served(r, op, returned) == [r |-> r, op |-> op, returned |-> returned]

Return(r, message) ==
  /\ pc' = [pc EXCEPT ![r] = "done"]
  /\ result' = [result EXCEPT ![r] = message]

\* Call rejecting an empty content as it rejects a missing one
CallRejectsEmptyContent(r) ==
  /\ pc[r] = "start"
  /\ IF \/ ~Truthy(req[r].path)
        \/ ~Truthy(req[r].symbolName)
        \/ ~Truthy(req[r].symbolType)
        \/ ~Truthy(req[r].content)
     THEN Return(r, MissingParametersError)
     ELSE pc' = [pc EXCEPT ![r] = "exists"] /\ UNCHANGED result
  /\ UNCHANGED <<files, dirty, req, originalCode, newCode, log, initial, mapVars>>

\* lines 26-43: the parameters are checked, exists is called
Call(r) ==
  /\ pc[r] = "start"
  /\ IF \/ ~Truthy(req[r].path)
        \/ ~Truthy(req[r].symbolName)
        \/ ~Truthy(req[r].symbolType)
        \/ req[r].content = Undefined
     THEN Return(r, MissingParametersError)
     ELSE pc' = [pc EXCEPT ![r] = "exists"] /\ UNCHANGED result
  /\ UNCHANGED <<files, dirty, req, originalCode, newCode, log, initial, mapVars>>

\* ExistsReturns going on to writeFile without the read
ExistsReturnsSkipsRead(r) ==
  /\ pc[r] = "exists"
  /\ log' = Append(log, Served(r, "exists", files[req[r].path] # Absent))
  /\ IF files[req[r].path] = Absent
     THEN Return(r, FileNotFoundError(req[r].path))
     ELSE IF extname(req[r].path) \notin supported
     THEN Return(r, UnsupportedFileTypeError(req[r].path))
     ELSE pc' = [pc EXCEPT ![r] = "writeFile"] /\ UNCHANGED result
  /\ UNCHANGED <<files, dirty, req, originalCode, newCode, initial, mapVars>>

\* lines 43-54: exists returns; the extension is checked, getFile is called
ExistsReturns(r) ==
  /\ pc[r] = "exists"
  /\ log' = Append(log, Served(r, "exists", files[req[r].path] # Absent))
  /\ IF files[req[r].path] = Absent
     THEN Return(r, FileNotFoundError(req[r].path))
     ELSE IF extname(req[r].path) \notin supported
     THEN Return(r, UnsupportedFileTypeError(req[r].path))
     ELSE pc' = [pc EXCEPT ![r] = "getFile"] /\ UNCHANGED result
  /\ UNCHANGED <<files, dirty, req, originalCode, newCode, initial, mapVars>>

\* (await fileSystem.getFile(filePath)) ?? ""
getFile(fs, filePath) == IF fs[filePath] = Absent THEN <<>> ELSE fs[filePath]

\* lines 54-151: getFile returns; the new text is generated and writeFile is
\* called, or an error is returned
GetFileReturns(r) ==
  /\ pc[r] = "getFile"
  /\ log' = Append(log, Served(r, "getFile", TRUE))
  /\ originalCode' = [originalCode EXCEPT ![r] = getFile(files, req[r].path)]
  /\ With(edit(originalCode'[r], req[r]), LAMBDA generated :
       /\ newCode' = [newCode EXCEPT ![r] = generated.newCode]
       /\ IF generated.write
          THEN pc' = [pc EXCEPT ![r] = "writeFile"] /\ UNCHANGED result
          ELSE Return(r, generated.result))
  /\ UNCHANGED <<files, dirty, req, initial, mapVars>>

\* WriteFileReturns setting the dirty flag whatever writeFile returned
WriteFileReturnsAlwaysDirty(r) ==
  /\ pc[r] = "writeFile"
  /\ \E success \in BOOLEAN :
       /\ log' = Append(log, Served(r, "writeFile", success))
       /\ dirty' = TRUE
       /\ IF success
          THEN /\ files' = [files EXCEPT ![req[r].path] = newCode[r]]
               /\ Return(r, SuccessMessage(req[r]))
          ELSE /\ UNCHANGED files
               /\ Return(r, WriteError(req[r].path))
  /\ UNCHANGED <<req, originalCode, newCode, initial, mapVars>>

\* lines 76-85 and 151-161: writeFile returns success or failure
WriteFileReturns(r) ==
  /\ pc[r] = "writeFile"
  /\ \E success \in BOOLEAN :
       /\ log' = Append(log, Served(r, "writeFile", success))
       /\ IF success
          THEN /\ files' = [files EXCEPT ![req[r].path] = newCode[r]]
               /\ dirty' = TRUE
               /\ Return(r, SuccessMessage(req[r]))
          ELSE /\ UNCHANGED <<files, dirty>>
               /\ Return(r, WriteError(req[r].path))
  /\ UNCHANGED <<req, originalCode, newCode, initial, mapVars>>

Next ==
  \E r \in Reqs :
    \/ Call(r)
    \/ ExistsReturns(r)
    \/ GetFileReturns(r)
    \/ WriteFileReturns(r)

Spec == Init /\ [][Next]_vars

\* --------------------------------------- delete, then create again

\* the text execute locates for the top-level symbol request q names, <<>>
\* when it locates none
TopLevelText(code, q) ==
  IF takesFastPath(q)
  THEN DeclarationText(code, q.symbolName)
  ELSE CurrentText(code, q.symbolName, q.symbolType)

\* the caller of a delete of a top-level symbol that was written calls execute
\* again, with the text the symbol had as the content
Recreate(r) ==
  /\ pc[r] = "done"
  /\ result[r] = SuccessMessage(req[r])
  /\ req[r].content = <<>>
  /\ ~Truthy(req[r].parentClass)
  /\ Len(log) = 3
  /\ With(TopLevelText(originalCode[r], req[r]), LAMBDA text :
       /\ text # <<>>
       /\ req' = [req EXCEPT ![r].content = text])
  /\ pc' = [pc EXCEPT ![r] = "start"]
  /\ result' = [result EXCEPT ![r] = NoResult]
  /\ UNCHANGED <<files, dirty, originalCode, newCode, log, initial, mapVars>>

NextRoundTrip == Next \/ \E r \in Reqs : Recreate(r)

RoundTripSpec == Init /\ [][NextRoundTrip]_vars

\* --------------------------------------------------- execute: exceptions
(***************************************************************************)
(* The calls of the file system may reject and the parser and the splices  *)
(* may throw; the catch of lines 162-165 returns the message of the error. *)
(***************************************************************************)

\* err.message of the errors thrown
ErrorMessages == {<<"EIO">>, <<"Invalid argument">>}

ErrorModifying(message) == <<"Error modifying symbol: ">> \o message

\* a call of request r that threw, or the step "edit" between the read and the
\* write (parsing, traversal, splicing)
Raised(r, op, message) == [r |-> r, op |-> op, threw |-> message]

\* lines 43 and 162-165: exists rejects
ExistsThrows(r) ==
  /\ pc[r] = "exists"
  /\ \E message \in ErrorMessages :
       /\ log' = Append(log, Raised(r, "exists", message))
       /\ Return(r, ErrorModifying(message))
  /\ UNCHANGED <<files, dirty, req, originalCode, newCode, initial, mapVars>>

\* lines 54 and 162-165: getFile rejects
GetFileThrows(r) ==
  /\ pc[r] = "getFile"
  /\ \E message \in ErrorMessages :
       /\ log' = Append(log, Raised(r, "getFile", message))
       /\ Return(r, ErrorModifying(message))
  /\ UNCHANGED <<files, dirty, req, originalCode, newCode, initial, mapVars>>

\* lines 56-149 and 162-165: getFile returns, and the parser, a traversal or a
\* splice throws
EditThrows(r) ==
  /\ pc[r] = "getFile"
  /\ originalCode' = [originalCode EXCEPT ![r] = getFile(files, req[r].path)]
  /\ \E message \in ErrorMessages :
       /\ log' = log \o <<Served(r, "getFile", TRUE), Raised(r, "edit", message)>>
       /\ Return(r, ErrorModifying(message))
  /\ UNCHANGED <<files, dirty, req, newCode, initial, mapVars>>

\* WriteFileThrows with the dirty flag set before the catch
WriteFileThrowsSetsDirty(r) ==
  /\ pc[r] = "writeFile"
  /\ \E message \in ErrorMessages, written \in BOOLEAN :
       /\ log' = Append(log, Raised(r, "writeFile", message))
       /\ files' = IF written THEN [files EXCEPT ![req[r].path] = newCode[r]] ELSE files
       /\ Return(r, ErrorModifying(message))
  /\ dirty' = TRUE
  /\ UNCHANGED <<req, originalCode, newCode, initial, mapVars>>

\* lines 76, 151 and 162-165: writeFile rejects, before or after the file
\* system has written the text
WriteFileThrows(r) ==
  /\ pc[r] = "writeFile"
  /\ \E message \in ErrorMessages, written \in BOOLEAN :
       /\ log' = Append(log, Raised(r, "writeFile", message))
       /\ files' = IF written THEN [files EXCEPT ![req[r].path] = newCode[r]] ELSE files
       /\ Return(r, ErrorModifying(message))
  /\ UNCHANGED <<dirty, req, originalCode, newCode, initial, mapVars>>

NextThrows ==
  \/ Next
  \/ \E r \in Reqs :
       \/ ExistsThrows(r)
       \/ GetFileThrows(r)
       \/ EditThrows(r)
       \/ WriteFileThrows(r)

ThrowsSpec == Init /\ [][NextThrows]_vars

\* ------------------------------------------------- execute: two requests
(***************************************************************************)
(* Two calls of execute on one file.  Each await (exists, getFile,         *)
(* writeFile) is a point where the other request may run.                  *)
(***************************************************************************)

BothReqs == {"r1", "r2"}

FnB == <<"function", SP, "b", "(", ")", "{", "}">>

NewB == <<"function", SP, "b", "(", ")", "{", ";", "}">>

NewLetA == <<"let", SP, "a", SP, ";">>

NewClsA == <<"class", SP, "A", "{", "}">>

\* a file and two requests on it that name different symbols: two functions
\* on the fast path, a variable and a class on the tree-sitter path
TwoRequestInputs ==
  {[doc |-> doc, q1 |-> Request(JsPath, <<"a">>, <<"function">>, c1, Undefined),
    q2 |-> Request(JsPath, <<"b">>, <<"function">>, c2, Undefined)] :
     doc \in {FnA \o <<NL>> \o FnB, FnB \o <<NL>> \o FnA \o <<NL>>},
     c1 \in {OneLine, <<>>}, c2 \in {NewB, <<>>}}
    \cup
  {[doc |-> doc, q1 |-> Request(JsPath, <<"a">>, <<"variable">>, c1, Undefined),
    q2 |-> Request(JsPath, <<"A">>, <<"class">>, c2, Undefined)] :
     doc \in {LetA \o <<NL>> \o ClsA, ClsA \o <<NL>> \o LetA \o <<NL>>},
     c1 \in {NewLetA, <<>>}, c2 \in {NewClsA, <<>>}}

TwoRequestInit ==
  \E inp \in TwoRequestInputs :
    /\ files = [p \in AllPaths |-> IF p = MissingPath THEN Absent ELSE inp.doc]
    /\ dirty = FALSE
    /\ req = [r \in BothReqs |-> IF r = "r1" THEN inp.q1 ELSE inp.q2]
    /\ pc = [r \in BothReqs |-> "start"]
    /\ originalCode = [r \in BothReqs |-> <<>>]
    /\ newCode = [r \in BothReqs |-> <<>>]
    /\ result = [r \in BothReqs |-> NoResult]
    /\ log = <<>>
    /\ initial = [files |-> files, dirty |-> dirty]
    /\ MapIdle

TwoRequestNext ==
  \E r \in BothReqs :
    \/ Call(r)
    \/ ExistsReturns(r)
    \/ GetFileReturns(r)
    \/ WriteFileReturns(r)

TwoRequestSpec == TwoRequestInit /\ [][TwoRequestNext]_vars

\* ------------------------------------------------ RepoMapService: getMemories

\* the longest file set of a batch
MaxFiles == 3

MapExtensions == supported \cup {Ext("txt"), Ext("JS"), <<>>}

\* a file of every extension, a second JavaScript file and a file that is gone
MapPaths ==
  {<<"f">> \o e : e \in MapExtensions} \cup {<<"g", ".", "js">>, MissingPath}

BatchPaths ==
  {JsPath, <<"g", ".", "js">>, <<"f", ".", "ts">>, <<"f", ".", "py">>, <<"f", ".", "txt">>,
   MissingPath}

\* the sequences of at most n different paths
RECURSIVE FileSets(_, _)
FileSets(paths, n) ==
  IF n = 0 THEN {<<>>}
  ELSE LET shorter == FileSets(paths, n - 1)
       IN  shorter \cup {Append(fs, p) : fs \in shorter, p \in paths}

HasNoDuplicate(fs) == \A i, j \in 1..Len(fs) : fs[i] = fs[j] => i = j

\* the chunks of the files of the map: a documentation comment before a
\* declaration, on the line of the declaration
MapChunks == TreeChunks \cup {<<DocComment, SP>>}

\* what the resources add to the file set and what the files hold: one file of
\* each extension, batches of files, and one JavaScript file of each text
MapInputs ==
  {[doc |-> ControlDoc, fileSet |-> <<p>>] : p \in MapPaths}
    \cup {[doc |-> ControlDoc, fileSet |-> fs] :
            fs \in {fs \in FileSets(BatchPaths, MaxFiles) : HasNoDuplicate(fs)}}
    \cup {[doc |-> doc, fileSet |-> <<JsPath>>] :
            doc \in Concats(MapChunks, MaxChunks) \cup MatcherDocs \cup NestedClassDocs}

\* the edit tool is not called
ToolIdle ==
  /\ dirty = FALSE
  /\ req = [r \in Reqs |-> Undefined]
  /\ pc = [r \in Reqs |-> "done"]
  /\ originalCode = [r \in Reqs |-> <<>>]
  /\ newCode = [r \in Reqs |-> <<>>]
  /\ result = [r \in Reqs |-> NoResult]
  /\ log = <<>>
  /\ initial = [files |-> files, dirty |-> dirty]

\* the files of the JavaScript family hold the text, the files of the other
\* languages are empty
MapInit ==
  \E inp \in MapInputs :
    /\ files = [p \in MapPaths |->
                  IF p = MissingPath THEN Absent
                  ELSE IF extname(p) \in fastPathExtensions THEN inp.doc
                  ELSE <<>>]
    /\ fileSet = inp.fileSet
    /\ mapPc = "start"
    /\ cursor = 0
    /\ repoMap = <<>>
    /\ memories = <<>>
    /\ errors = <<>>
    /\ ToolIdle

\* lines 21-28: the resources have added their files; if (files.size > 0)
CollectFiles ==
  /\ mapPc = "start"
  /\ mapPc' = IF Len(fileSet) > 0 THEN "loop" ELSE "done"
  /\ UNCHANGED <<files, toolVars, fileSet, cursor, repoMap, memories, errors>>

\* parser.parse(code) with the grammar lang: the JavaScript tree, and for the
\* other grammars the tree of an empty text, its root alone
parse(lang, code) ==
  IF lang = "javascript" THEN Parse(code)
  ELSE <<Node(IF lang = "python" THEN "module" ELSE "translation_unit", 0, 0, 0, "", TRUE)>>

\* console.error of line 39 (what is "read") and of line 48 (what is "processing")
ErrorLogged(file, what) == [file |-> file, what |-> what]

\* lines 46-47: the formatted output is pushed when it is not empty
pushFormatted(formattedOutput, file) ==
  IF formattedOutput.threw
  THEN /\ errors' = Append(errors, ErrorLogged(file, "processing"))
       /\ UNCHANGED repoMap
  ELSE /\ repoMap' = IF formattedOutput.output # <<>>
                     THEN Append(repoMap, formattedOutput.output)
                     ELSE repoMap
       /\ UNCHANGED errors

\* ProcessFile giving up the entries of the files before when the parser throws
ProcessFileDropsTheMap ==
  /\ mapPc = "loop"
  /\ cursor < Len(fileSet)
  /\ cursor' = cursor + 1
  /\ With(fileSet[cursor + 1], LAMBDA file :
     With(RepoMapService_loadLanguage(extname(file)), LAMBDA lang :
       IF lang = "null" THEN UNCHANGED <<repoMap, errors>>
       ELSE IF files[file] = Absent
       THEN /\ errors' = Append(errors, ErrorLogged(file, "read"))
            /\ UNCHANGED repoMap
       ELSE \E parserThrows \in BOOLEAN :
              IF parserThrows
              THEN /\ errors' = Append(errors, ErrorLogged(file, "processing"))
                   /\ repoMap' = <<>>
              ELSE pushFormatted(formatFileOutput(file, files[file],
                                                  extractSymbols(parse(lang, files[file]),
                                                                 files[file])), file)))
  /\ UNCHANGED <<files, toolVars, mapPc, fileSet, memories>>

\* lines 29-53: one turn of the loop, for the file at the cursor; the parser
\* throws or not
ProcessFile ==
  /\ mapPc = "loop"
  /\ cursor < Len(fileSet)
  /\ cursor' = cursor + 1
  /\ With(fileSet[cursor + 1], LAMBDA file :
     With(RepoMapService_loadLanguage(extname(file)), LAMBDA lang :
       IF lang = "null" THEN UNCHANGED <<repoMap, errors>>
       ELSE IF files[file] = Absent
       THEN /\ errors' = Append(errors, ErrorLogged(file, "read"))
            /\ UNCHANGED repoMap
       ELSE \E parserThrows \in BOOLEAN :
              IF parserThrows
              THEN /\ errors' = Append(errors, ErrorLogged(file, "processing"))
                   /\ UNCHANGED repoMap
              ELSE pushFormatted(formatFileOutput(file, files[file],
                                                  extractSymbols(parse(lang, files[file]),
                                                                 files[file])), file)))
  /\ UNCHANGED <<files, toolVars, mapPc, fileSet, memories>>

MapHeader ==
  <<"// These are snippets of the symbols in the project. This DOES NOT contain the full file contents. This only includes relevant symbols for you to reference so you know what to retrieve with the retrieveFiles tool:">>

\* lines 56-62: the loop is over; the map is yielded when it has an entry
YieldMemory ==
  /\ mapPc = "loop"
  /\ cursor = Len(fileSet)
  /\ mapPc' = "done"
  /\ memories' = IF Len(repoMap) > 0
                 THEN Append(memories, [role |-> "user",
                                        content |-> MapHeader \o <<NL>> \o Join(repoMap)])
                 ELSE memories
  /\ UNCHANGED <<files, toolVars, fileSet, cursor, repoMap, errors>>

MapNext == CollectFiles \/ ProcessFile \/ YieldMemory

MapSpec == MapInit /\ [][MapNext]_vars

\* ------------------------------------------------------------ properties

\* the file system operations request r has been served, in order
OpsOf(r) ==
  With(SelectSeq(log, LAMBDA e : e.r = r), LAMBDA calls :
    [i \in 1..Len(calls) |-> calls[i].op])

\* request r was served op, and op returned the given value
WasServed(r, op, returned) ==
  \E i \in 1..Len(log) : log[i] = Served(r, op, returned)

\* request r has handed newCode[r] to writeFile
Writes(r) == pc[r] = "writeFile" \/ "writeFile" \in {OpsOf(r)[i] : i \in 1..Len(OpsOf(r))}

\* nothing of the file system and of the dirty flag has changed
Untouched == files = initial.files /\ dirty = initial.dirty

AllWs(t) == \A i \in 1..Len(t) : IsWs(t[i])

\* p occurs in t
Contains(t, p) == \E i \in 0..(Len(t) - Len(p)) : Slice(t, i, i + Len(p)) = p

\* t holds no three consecutive line breaks
NoLongBreak(t) == ~Contains(t, <<NL, NL, NL>>)

\* the elements of t at the positions of S, in order
RECURSIVE PickFrom(_, _, _)
PickFrom(t, S, i) ==
  IF i > Len(t) THEN <<>>
  ELSE (IF i \in S THEN <<t[i]>> ELSE <<>>) \o PickFrom(t, S, i + 1)

\* t with every run of three or more line breaks cut down to its first two
TwoBreaksAtMost(t) ==
  PickFrom(t, {i \in 1..Len(t) : ~(i >= 3 /\ t[i] = NL /\ t[i - 1] = NL /\ t[i - 2] = NL)}, 1)

\* what the matcher finds for request r in the text it read
RangeOf(r) == findTopLevelFunctionRange(originalCode[r], req[r].symbolName)

\* the position of the 'function' keyword of the declaration the matcher found
KeywordOf(r) == SkipWs(originalCode[r], RangeOf(r).start)

\* request r took the fast path, found its function and called writeFile
FastEdit(r) == Writes(r) /\ takesFastPath(req[r]) /\ RangeOf(r).found

\* request r went through the parser and its grammar
TreeEdit(r) ==
  /\ WasServed(r, "getFile", TRUE)
  /\ ~takesFastPath(req[r])
  /\ req[r].parserLoads
  /\ loadLanguage(extname(req[r].path), req[r].grammarLoads) # "null"

\* what findSymbol finds for request r at top level
SymbolOf(r) ==
  findSymbol(Parse(originalCode[r]), originalCode[r], req[r].symbolName, req[r].symbolType)

\* what findSymbol finds for the parent class of request r
ClassOf(r) == findSymbol(Parse(originalCode[r]), originalCode[r], req[r].parentClass, <<"class">>)

\* what findSymbolInClass finds for request r in its parent class
MemberOf(r) ==
  IF ClassOf(r).found
  THEN findSymbolInClass(Parse(originalCode[r]), originalCode[r], ClassOf(r).node,
                         req[r].symbolName, req[r].symbolType)
  ELSE NoSymbol

\* the current text of the symbol request r names, <<>> when it is not located
LocatedText(r) ==
  IF takesFastPath(req[r]) THEN DeclarationText(originalCode[r], req[r].symbolName)
  ELSE IF ~TreeEdit(r) THEN <<>>
  ELSE IF Truthy(req[r].parentClass) THEN MemberOf(r).text
  ELSE SymbolOf(r).text

\* C1: a fast-path replace of an existing top-level function writes the original
\* text with exactly the span from the 'function' keyword through the closing
\* brace substituted by the content; a function that is the whole file is
\* replaced by the content exactly.
C1_FastReplaceSubstitutesFromKeyword ==
  \A r \in Reqs :
    FastEdit(r) /\ req[r].content # <<>> =>
      /\ newCode[r] = Slice(originalCode[r], 0, KeywordOf(r)) \o req[r].content
                        \o SliceFrom(originalCode[r], RangeOf(r).end)
      /\ KeywordOf(r) = 0 /\ RangeOf(r).end = Len(originalCode[r]) =>
           newCode[r] = req[r].content

\* C2: replacing a located symbol by content identical to its current text
\* writes a text identical to the original.
C2_RoundTripWritesOriginal ==
  \A r \in Reqs :
    Writes(r) /\ LocatedText(r) # <<>> /\ req[r].content = LocatedText(r) =>
      newCode[r] = originalCode[r]

\* request r, with no parent class, did not find its symbol
NotFoundAtTopLevel(r) ==
  /\ Writes(r)
  /\ ~Truthy(req[r].parentClass)
  /\ IF takesFastPath(req[r]) THEN ~RangeOf(r).found ELSE ~SymbolOf(r).found

\* C3: with no parent class and the symbol not found, the written text is the
\* trimmed content when the file is blank, else the trimmed original, one line
\* break, the trimmed content.
C3_CreateAtTopLevelAppends ==
  \A r \in Reqs :
    NotFoundAtTopLevel(r) =>
      newCode[r] = IF AllWs(originalCode[r])
                   THEN Trim(req[r].content)
                   ELSE Trim(originalCode[r]) \o <<NL>> \o Trim(req[r].content)

C3_Witness ==
  \E r \in Reqs :
    /\ NotFoundAtTopLevel(r)
    /\ ~AllWs(originalCode[r])
    /\ Trim(originalCode[r]) # originalCode[r]
    /\ req[r].content = MultiLine
    /\ pc[r] = "done"

\* request r deleted, on the fast path, the function the matcher found
FastDelete(r) == FastEdit(r) /\ req[r].content = <<>>

\* C4 as stated: deleting a top-level function on the fast path writes a text
\* that no longer contains the declaration and has no run of three or more
\* line breaks, and that, trimmed, is exactly the code after the function when
\* nothing precedes the function.
C4_DeleteLeavesOtherCodeExactly ==
  \A r \in Reqs :
    FastDelete(r) =>
      /\ ~Contains(newCode[r], DeclarationText(originalCode[r], req[r].symbolName))
      /\ NoLongBreak(newCode[r])
      /\ KeywordOf(r) = 0 =>
           Trim(newCode[r]) = Trim(SliceFrom(originalCode[r], RangeOf(r).end))

\* C4, amended: the written text is the original without the matched
\* declaration (from the line break before it, or the start of the text,
\* through its closing brace), every run of three or more line breaks of the
\* result cut down to two; so it has no such run, and a function that nothing
\* precedes leaves, trimmed, the code after it with its runs cut down.
C4_DeleteRemovesRangeAndCollapses ==
  \A r \in Reqs :
    FastDelete(r) =>
      /\ newCode[r] = TwoBreaksAtMost(Slice(originalCode[r], 0, RangeOf(r).start)
                                        \o SliceFrom(originalCode[r], RangeOf(r).end))
      /\ NoLongBreak(newCode[r])
      /\ KeywordOf(r) = 0 =>
           Trim(newCode[r])
             = Trim(TwoBreaksAtMost(SliceFrom(originalCode[r], RangeOf(r).end)))

C4_Witness ==
  \E r \in Reqs :
    /\ FastDelete(r)
    /\ KeywordOf(r) = 0
    /\ ~NoLongBreak(SliceFrom(originalCode[r], RangeOf(r).end))
    /\ pc[r] = "done"

\* request r deleted, through deleteSymbol, the symbol findSymbol found
TreeDelete(r) ==
  /\ Writes(r)
  /\ TreeEdit(r)
  /\ ~Truthy(req[r].parentClass)
  /\ req[r].content = <<>>
  /\ SymbolOf(r).found

\* the node of the symbol request r names
NodeOf(r) == Parse(originalCode[r])[SymbolOf(r).node]

\* C5: deleteSymbol removes the characters of the symbol's range and, around
\* it, white space only: the output is the original without a stretch that is
\* the range, white space before it and white space after it.
C5_DeleteSymbolKeepsUnrelatedCode ==
  \A r \in Reqs :
    TreeDelete(r) =>
      \E a \in 0..NodeOf(r).start, b \in NodeOf(r).end..Len(originalCode[r]) :
        /\ AllWs(Slice(originalCode[r], a, NodeOf(r).start))
        /\ AllWs(Slice(originalCode[r], NodeOf(r).end, b))
        /\ newCode[r] = Slice(originalCode[r], 0, a) \o SliceFrom(originalCode[r], b)

\* the error results that are determined before any write
IsEarlyError(r) ==
  \/ result[r] = <<"Error: File ">> \o req[r].path
                   \o <<" not found. Please create the file first.">>
  \/ Len(result[r]) > 0 /\ result[r][1] = "Error: Unsupported file type for "
  \/ result[r] = <<"Error: Failed to load parser for ">> \o req[r].path
  \/ Len(result[r]) > 0 /\ result[r][1] = "Error: Parent class '"
  \/ result[r] = <<"Error: Failed to generate modified code.">>

\* C6: the file system calls of a request are exists, then getFile, then
\* writeFile, each at most once and writeFile last; a request that returned an
\* error determined before the write never called writeFile, and the files are
\* as they were.
C6_ExistsReadWriteInOrder ==
  \A r \in Reqs :
    /\ \E n \in 0..3 : OpsOf(r) = SubSeq(<<"exists", "getFile", "writeFile">>, 1, n)
    /\ pc[r] = "writeFile" => OpsOf(r) = <<"exists", "getFile">>
    /\ pc[r] = "done" /\ IsEarlyError(r) =>
         /\ "writeFile" \notin {OpsOf(r)[i] : i \in 1..Len(OpsOf(r))}
         /\ files = initial.files

C6_Witness ==
  \E r \in Reqs :
    /\ pc[r] = "done"
    /\ result[r] = <<"Error: Failed to generate modified code.">>
    /\ OpsOf(r) = <<"exists", "getFile">>

\* <symbolDescription> of request r
DescriptionOf(r) ==
  IF req[r].parentClass # Undefined /\ req[r].parentClass # <<>>
  THEN req[r].symbolType \o <<" '">> \o req[r].symbolName \o <<"' in class '">>
         \o req[r].parentClass \o <<"'">>
  ELSE req[r].symbolType \o <<" '">> \o req[r].symbolName \o <<"'">>

\* C7: a request returns '<symbolDescription> successfully modified' and sets
\* the dirty flag exactly when its writeFile returned success; when writeFile
\* returned failure it returns 'Error: Failed to write changes to <path>',
\* has called writeFile once, and the dirty flag and the files are as they were.
C7_SuccessIffWriteSucceeded ==
  \A r \in Reqs :
    pc[r] = "done" =>
      /\ result[r] = DescriptionOf(r) \o <<" successfully modified">>
           <=> WasServed(r, "writeFile", TRUE)
      /\ WasServed(r, "writeFile", TRUE) => dirty
      /\ ~WasServed(r, "writeFile", TRUE) => dirty = initial.dirty
      /\ WasServed(r, "writeFile", FALSE) =>
           /\ result[r] = <<"Error: Failed to write changes to ">> \o req[r].path
           /\ OpsOf(r) = <<"exists", "getFile", "writeFile">>
           /\ Untouched

C7_Witness ==
  \E r \in Reqs :
    /\ pc[r] = "done"
    /\ WasServed(r, "writeFile", FALSE)
    /\ ~initial.dirty
    /\ newCode[r] # originalCode[r]

\* C8: a request whose path exists reports as absent returns 'Error: File
\* <path> not found. Please create the file first.'; exists is its only file
\* system call, and the files and the dirty flag are as they were.
C8_MissingFileIsReported ==
  \A r \in Reqs :
    WasServed(r, "exists", FALSE) =>
      /\ pc[r] = "done"
      /\ result[r] = <<"Error: File ">> \o req[r].path
                       \o <<" not found. Please create the file first.">>
      /\ OpsOf(r) = <<"exists">>
      /\ Untouched

C8_Witness ==
  \E r \in Reqs :
    /\ WasServed(r, "exists", FALSE)
    /\ req[r].path = MissingPath
    /\ pc[r] = "done"

\* the extension of a path is one of the eleven supported ones
HasSupportedExtension(filePath) ==
  \E e \in {"js", "jsx", "ts", "tsx", "py", "c", "cpp", "h", "hpp", "hxx", "cxx"} :
    /\ Len(filePath) >= 3
    /\ SubSeq(filePath, Len(filePath) - 1, Len(filePath)) = <<".", e>>
    /\ filePath[Len(filePath) - 2] # "/"

\* C9: a request on an existing file whose extension is not supported returns
\* an error that begins 'Error: Unsupported file type for <path>'; exists is
\* its only file system call, and the files and the dirty flag are as they
\* were.
C9_UnsupportedExtensionIsReported ==
  \A r \in Reqs :
    WasServed(r, "exists", TRUE) /\ ~HasSupportedExtension(req[r].path) =>
      /\ pc[r] = "done"
      /\ SubSeq(result[r], 1, 1 + Len(req[r].path))
           = <<"Error: Unsupported file type for ">> \o req[r].path
      /\ OpsOf(r) = <<"exists">>
      /\ Untouched

C9_Witness ==
  \E r \in Reqs :
    /\ WasServed(r, "exists", TRUE)
    /\ req[r].path = <<".", "js">>
    /\ pc[r] = "done"

\* C10: a request with a parent class that findSymbol does not find in the
\* file returns 'Error: Parent class '<class>' not found in <path>.' and calls
\* no writeFile, whatever the symbol type and the content; the files are as
\* they were.
C10_MissingParentClassIsAnError ==
  \A r \in Reqs :
    TreeEdit(r) /\ Truthy(req[r].parentClass) /\ ~ClassOf(r).found =>
      /\ pc[r] = "done"
      /\ result[r] = <<"Error: Parent class '">> \o req[r].parentClass
                       \o <<"' not found in ">> \o req[r].path \o <<".">>
      /\ OpsOf(r) = <<"exists", "getFile">>
      /\ Untouched

C10_Witness ==
  \E r \in Reqs :
    /\ TreeEdit(r)
    /\ req[r].parentClass = <<"Z">>
    /\ req[r].symbolType = <<"function">>
    /\ req[r].content = OneLine
    /\ pc[r] = "done"

\* a required parameter of request r is missing: path, symbolName or symbolType
\* is undefined or "", or content is undefined
MissesParameter(r) ==
  \/ ~Truthy(req[r].path)
  \/ ~Truthy(req[r].symbolName)
  \/ ~Truthy(req[r].symbolType)
  \/ req[r].content = Undefined

\* C16: a request with path, symbolName or symbolType missing, or with content
\* undefined, returns the 'Missing required parameters' error and is served no
\* exists, getFile or writeFile; a request whose content is "" and whose other
\* parameters are there is not rejected: it goes on to exists, and no step of it
\* returns that error.
C16_MissingParametersAreRejectedFirst ==
  \A r \in Reqs :
    /\ MissesParameter(r) =>
         /\ pc[r] \in {"start", "done"}
         /\ pc[r] = "done" => result[r] = MissingParametersError
         /\ OpsOf(r) = <<>>
         /\ Untouched
    /\ ~MissesParameter(r) =>
         /\ result[r] # MissingParametersError
         /\ pc[r] = "done" => Len(OpsOf(r)) > 0 /\ OpsOf(r)[1] = "exists"

C16_Witness ==
  \E r \in Reqs :
    /\ req[r].content = Undefined
    /\ Truthy(req[r].path) /\ Truthy(req[r].symbolName) /\ Truthy(req[r].symbolType)
    /\ pc[r] = "done"
    /\ result[r] = MissingParametersError

\* request r took the fast path and read the file
FastRead(r) == takesFastPath(req[r]) /\ WasServed(r, "getFile", TRUE)

\* C18: the opening brace of the body is the first '{' after the parenthesis
\* that closes the signature's opening parenthesis, so the range the matcher
\* returns ends at the brace that closes the one after the whole parameter
\* list, whatever parentheses and braces the parameter list holds.
C18_BodyFollowsMatchingParenthesis ==
  \A r \in Reqs :
    FastRead(r) /\ RangeOf(r).found =>
      With(IndexOf(originalCode[r], "(", RangeOf(r).start), LAMBDA openParen :
      With(ParenScan(originalCode[r], openParen, 0), LAMBDA closeParen :
      With(IF closeParen = -1 THEN -1 ELSE IndexOf(originalCode[r], "{", closeParen + 1),
           LAMBDA openBrace :
        /\ openBrace # -1
        /\ RangeOf(r).end = BraceScan(originalCode[r], openBrace, 0))))

\* the number of places of t the pattern 'function <name> (' matches at
Declarations(t, name) == Cardinality({i \in 0..Len(t) : PatternMatchesAt(t, name, i)})

\* C19: when the pattern matches a declaration of the file, the fast path
\* replaces or deletes that declaration: the matcher has a range for it, and the
\* written text declares the name no more often than the original did (the
\* content is not appended as a second declaration).
C19_MatchedDeclarationIsNeverAppendedTo ==
  \A r \in Reqs :
    FastRead(r) /\ Writes(r) /\ PatternExec(originalCode[r], req[r].symbolName) # -1 =>
      /\ RangeOf(r).found
      /\ Declarations(newCode[r], req[r].symbolName)
           <= Declarations(originalCode[r], req[r].symbolName)

\* the number of braces open at position p of t
RECURSIVE DepthAt(_, _)
DepthAt(t, p) ==
  IF p <= 0 THEN 0
  ELSE DepthAt(t, p - 1)
         + (IF At(t, p - 1) = "{" THEN 1 ELSE IF At(t, p - 1) = "}" THEN -1 ELSE 0)

\* C20: the declaration the fast path replaces or deletes is a top-level one:
\* its 'function' keyword lies in no body of another function or of a class.
C20_FastPathSelectsTopLevelOnly ==
  \A r \in Reqs :
    FastEdit(r) => DepthAt(originalCode[r], KeywordOf(r)) = 0

\* request r replaced, through replaceSymbol, the symbol findSymbol found
TreeReplace(r) ==
  /\ Writes(r)
  /\ TreeEdit(r)
  /\ ~Truthy(req[r].parentClass)
  /\ req[r].content # <<>>
  /\ SymbolOf(r).found

\* the number of characters of the text before the given row and column
OffsetOf(code, position) ==
  Len(Join(SubSeq(Split(code), 1, position.row)))
    + (IF position.row > 0 THEN 1 ELSE 0) + position.column

\* the last n lines of the text
LastLines(code, n) == SubSeq(Split(code), Len(Split(code)) - n + 1, Len(Split(code)))

\* C17: replaceSymbol returns the original text with exactly the characters of
\* the range, from (startLine, startColumn) to (endLine, endColumn),
\* substituted by the content: the lines before startLine, the first
\* startColumn characters of startLine, the characters of endLine from
\* endColumn on and the lines after endLine are those of the original,
\* whether the range lies in one line or spans several.
C17_ReplaceSymbolSubstitutesTheRange ==
  \A r \in Reqs :
    Writes(r) /\ TreeEdit(r) /\ ~Truthy(req[r].parentClass) /\ req[r].content # <<>> =>
     With(SymbolOf(r), LAMBDA symbol : symbol.found =>
      LET code == originalCode[r]
          from == symbol.startPosition
          to == symbol.endPosition
          after == Len(Split(code)) - to.row - 1
      IN  /\ from.row <= to.row
          /\ newCode[r] = Slice(code, 0, OffsetOf(code, from)) \o req[r].content
                            \o SliceFrom(code, OffsetOf(code, to))
          /\ SubSeq(Split(newCode[r]), 1, from.row) = SubSeq(Split(code), 1, from.row)
          /\ Substring(Split(newCode[r])[from.row + 1], 0, from.column)
               = Substring(Split(code)[from.row + 1], 0, from.column)
          /\ LastLines(newCode[r], after) = LastLines(code, after)
          /\ \E n \in 0..Len(Split(code)[to.row + 1]) :
               /\ n = Len(Split(code)[to.row + 1]) - to.column
               /\ LET line == Split(newCode[r])[Len(Split(newCode[r])) - after]
                  IN  SubstringFrom(line, Len(line) - n)
                        = SubstringFrom(Split(code)[to.row + 1], to.column))

\* a symbol that spans several lines, with code before it on its first line
\* and after it on its last, was replaced by a text of several lines
C17_Witness ==
  \E r \in Reqs :
    /\ TreeReplace(r)
    /\ SymbolOf(r).startPosition.row < SymbolOf(r).endPosition.row
    /\ SymbolOf(r).startPosition.column > 0
    /\ SubstringFrom(Split(originalCode[r])[SymbolOf(r).endPosition.row + 1],
                     SymbolOf(r).endPosition.column) # <<>>
    /\ req[r].content = MultiLine
    /\ result[r] = SuccessMessage(req[r])

\* the text of the file of request r before any request
OriginalOf(r) == initial.files[req[r].path]

\* where the top-level symbol of request r lies in the original text: a
\* function of the fast path from its keyword, any other symbol as its node
SpanOf(r) ==
  IF takesFastPath(req[r])
  THEN With(findTopLevelFunctionRange(OriginalOf(r), req[r].symbolName), LAMBDA range :
         [start |-> SkipWs(OriginalOf(r), range.start), end |-> range.end])
  ELSE With(Parse(OriginalOf(r)), LAMBDA tree :
       With(findSymbol(tree, OriginalOf(r), req[r].symbolName, req[r].symbolType), LAMBDA s :
         [start |-> tree[s.node].start, end |-> tree[s.node].end]))

\* request r deleted its symbol, was called again with the text of the symbol
\* and has handed the second new text to writeFile
SecondWrite(r) ==
  /\ Len(OpsOf(r)) >= 5
  /\ pc[r] = "writeFile" \/ Len(OpsOf(r)) = 6

TrimStart(t) == SliceFrom(t, SkipWs(t, 0))

TrimEnd(t) == Slice(t, 0, SkipWsBack(t, Len(t)))

\* t without its white space
NoWs(t) == SelectSeq(t, LAMBDA c : ~IsWs(c))

\* C12 as stated: after the delete and the create, the text is the original
\* but for the white space around the symbol: the symbol's text stands in it
\* with, before it, what was before it and, after it, what was after it, up
\* to the white space next to the symbol.
C12_DeleteThenCreateRestoresTheFile ==
  \A r \in Reqs :
    SecondWrite(r) =>
      \E i \in 0..Len(newCode[r]) :
        /\ Slice(newCode[r], i, i + Len(req[r].content)) = req[r].content
        /\ TrimEnd(Slice(newCode[r], 0, i)) = TrimEnd(Slice(OriginalOf(r), 0, SpanOf(r).start))
        /\ TrimStart(SliceFrom(newCode[r], i + Len(req[r].content)))
             = TrimStart(SliceFrom(OriginalOf(r), SpanOf(r).end))

\* C12, amended: when only white space follows the symbol in the file, the
\* second write is what the delete left, trimmed, one line break and the
\* symbol's trimmed text (that text alone when the delete left white space
\* only), and it is the original up to white space.
C12_DeleteThenCreateOfLastSymbol ==
  \A r \in Reqs :
    SecondWrite(r) /\ AllWs(SliceFrom(OriginalOf(r), SpanOf(r).end)) =>
      /\ newCode[r] = IF AllWs(originalCode[r])
                      THEN Trim(req[r].content)
                      ELSE Trim(originalCode[r]) \o <<NL>> \o Trim(req[r].content)
      /\ NoWs(newCode[r]) = NoWs(OriginalOf(r))

C12_Witness ==
  \E r \in Reqs :
    /\ SecondWrite(r)
    /\ AllWs(SliceFrom(OriginalOf(r), SpanOf(r).end))
    /\ ~AllWs(Slice(OriginalOf(r), 0, SpanOf(r).start))
    /\ ~takesFastPath(req[r])
    /\ result[r] = SuccessMessage(req[r])

\* the files the loop of getMemories has been through
Processed == {fileSet[i] : i \in 1..cursor}

\* C13: grammar selection gives a grammar for each of the extensions .js .jsx
\* .ts .tsx .py .c .cpp .h .hpp .hxx .cxx and null for every other extension,
\* on the map path (RepoMapService.loadLanguage) as on the edit path
\* (loadLanguage of the symbol tool).
C13_GrammarForEverySupportedExtension ==
  \A file \in Processed :
    /\ (RepoMapService_loadLanguage(extname(file)) # "null") = (extname(file) \in supported)
    /\ (loadLanguage(extname(file), TRUE) # "null") = (extname(file) \in supported)

\* the symbols getMemories extracts from a file it reads
SymbolsOf(file) ==
  extractSymbols(parse(RepoMapService_loadLanguage(extname(file)), files[file]), files[file])

\* the important lines of a file: the line formatFileOutput resolves each of its
\* symbols to
ImportantLinesOf(file) ==
  {actualLineOf(Split(files[file]), SymbolsOf(file)[j]).actualLine :
     j \in 1..Len(SymbolsOf(file))}

\* the elements of a set of numbers, least first
Ascending(S) ==
  CHOOSE order \in [1..Cardinality(S) -> S] :
    \A a, b \in 1..Cardinality(S) : a < b => order[a] < order[b]

\* entry is '<file>:' on a line of its own, then one line '- <trimmed line>'
\* for each of the given lines of the file, in the given order, and no more
IsHeaderAndBullets(entry, file, order) ==
  /\ Slice(entry, 0, Len(file) + 2) = file \o <<":", NL>>
  /\ With(Split(SliceFrom(entry, Len(file) + 2)), LAMBDA rest :
       /\ Len(rest) = Len(order) + 1
       /\ rest[Len(rest)] = <<>>
       /\ \A i \in 1..Len(order) :
            rest[i] = <<"-", SP>> \o Trim(Split(files[file])[order[i] + 1]))

\* file was pushed an entry for: it has a grammar and a text
IsMapped(file) ==
  RepoMapService_loadLanguage(extname(file)) # "null" /\ files[file] # Absent

\* C15: for each file, formatFileOutput returns the header '<path>:' on its own
\* line followed by one bullet '- <trimmed line text>' for each distinct
\* important line of the file, in strictly ascending line order: symbols that
\* resolve to the same line give one bullet.
C15_OneBulletPerImportantLineAscending ==
  \A file \in Processed :
    IsMapped(file) =>
      With(formatFileOutput(file, files[file], SymbolsOf(file)), LAMBDA formatted :
        /\ ~formatted.threw
        /\ IsHeaderAndBullets(formatted.output, file, Ascending(ImportantLinesOf(file))))

\* C11: for every symbol extractSymbols returns without parentClass, findSymbol
\* on the same tree with the symbol's name and kind returns a node, and the
\* line of that node (its start row + 1) is the line recorded in the symbol.
C11_EnumeratedSymbolsAreLocatedOnTheirLine ==
  \A file \in Processed :
    IsMapped(file) =>
      With(parse(RepoMapService_loadLanguage(extname(file)), files[file]), LAMBDA tree :
      With(extractSymbols(tree, files[file]), LAMBDA symbols :
        \A j \in 1..Len(symbols) :
          symbols[j].parentClass = Undefined =>
            With(findSymbol(tree, files[file], symbols[j].name, symbols[j].kind),
                 LAMBDA located :
                   /\ located.found
                   /\ located.startPosition.row + 1 = symbols[j].line)))

\* console.error was called for the file
HasError(file) == \E i \in 1..Len(errors) : errors[i].file = file

\* the files the loop has been through that were read (they have a grammar),
\* whose read gave a text, and that were processed without an exception, in the
\* order of the file set
ProcessedWithoutError ==
  SelectSeq(SubSeq(fileSet, 1, cursor), LAMBDA file : IsMapped(file) /\ ~HasError(file))

\* C14: a file that has no grammar, whose read returns null or whose
\* processing throws is passed over and the loop goes on: getMemories ends only
\* after the last file of the set, the map has exactly one entry for each file
\* that was read and processed without error, in the order of the file set,
\* each such file has a supported extension, and what is yielded is that map.
C14_MapHoldsEveryFileProcessedWithoutError ==
  /\ mapPc \in {"start", "loop", "done"}
  /\ mapPc = "done" => cursor = Len(fileSet)
  /\ Len(repoMap) = Len(ProcessedWithoutError)
  /\ \A i \in 1..Len(repoMap) :
       /\ Slice(repoMap[i], 0, Len(ProcessedWithoutError[i]) + 1)
            = ProcessedWithoutError[i] \o <<":">>
       /\ extname(ProcessedWithoutError[i]) \in supported
  /\ \A file \in Processed : ~IsMapped(file) \/ HasError(file) =>
       \A i \in 1..Len(repoMap) : Slice(repoMap[i], 0, Len(file) + 1) # file \o <<":">>
  /\ mapPc = "done" =>
       memories = IF repoMap = <<>> THEN <<>>
                  ELSE <<[role |-> "user", content |-> MapHeader \o <<NL>> \o Join(repoMap)]>>

\* a batch of three files, the second of which made the parser throw, has
\* yielded a map of the first and the third
C14_Witness ==
  /\ mapPc = "done"
  /\ Len(fileSet) = 3
  /\ errors = <<ErrorLogged(fileSet[2], "processing")>>
  /\ Len(repoMap) = 2
  /\ Len(memories) = 1

\* request r is a delete (its content is "") that went through the parser and
\* located its symbol: at top level, or in its parent class
LocatedDelete(r) ==
  /\ TreeEdit(r)
  /\ req[r].content = <<>>
  /\ IF Truthy(req[r].parentClass) THEN MemberOf(r).found ELSE SymbolOf(r).found

\* C21: every delete request that locates its symbol on the tree-sitter path
\* calls writeFile, and returns the success message when writeFile succeeds,
\* also when removing the symbol leaves the text of the file empty.
C21_LocatedDeleteReachesTheWrite ==
  \A r \in Reqs :
    LocatedDelete(r) =>
      /\ Writes(r)
      /\ WasServed(r, "writeFile", TRUE) => result[r] = SuccessMessage(req[r])

\* request r deleted a symbol that does not start in column 0
MidLineDelete(r) == TreeDelete(r) /\ SymbolOf(r).startPosition.column # 0

\* the original text of request r without the characters of its symbol
WithoutSymbol(r) ==
  Slice(originalCode[r], 0, NodeOf(r).start) \o SliceFrom(originalCode[r], NodeOf(r).end)

\* t with every run of three or more blank lines (four or more line breaks)
\* cut down to two blank lines (three line breaks)
TwoBlankLinesAtMost(t) ==
  PickFrom(t, {i \in 1..Len(t) :
                 ~(i >= 4 /\ t[i] = NL /\ t[i - 1] = NL /\ t[i - 2] = NL /\ t[i - 3] = NL)}, 1)

\* C22 as stated: for a symbol that does not start in column 0, deleteSymbol
\* returns the text without the symbol in which every run of three or more
\* blank lines is collapsed to two blank lines and shorter runs are as they were.
C22_ThreeBlankLinesCollapseToTwo ==
  \A r \in Reqs :
    MidLineDelete(r) => newCode[r] = TwoBlankLinesAtMost(WithoutSymbol(r))

\* C22, amended: for a symbol that does not start in column 0, deleteSymbol
\* returns the text without the symbol in which every run of three or more
\* line breaks is cut down to two line breaks (one blank line), and runs of one
\* or two line breaks are as they were.
C22_ThreeLineBreaksCollapseToTwo ==
  \A r \in Reqs :
    MidLineDelete(r) => newCode[r] = TwoBreaksAtMost(WithoutSymbol(r))

\* a symbol in the middle of its line was deleted from a text that has a run of
\* three line breaks
C22_Witness ==
  \E r \in Reqs :
    /\ MidLineDelete(r)
    /\ Contains(WithoutSymbol(r), <<NL, NL, NL>>)
    /\ result[r] = SuccessMessage(req[r])

\* request r found its parent class and no member of that name in it, and
\* handed the text with the member created to writeFile
ClassCreate(r) ==
  /\ Writes(r)
  /\ TreeEdit(r)
  /\ Truthy(req[r].parentClass)
  /\ ClassOf(r).found
  /\ ~MemberOf(r).found

\* the class node of request r
ClassNodeOf(r) == Parse(originalCode[r])[ClassOf(r).node]

\* the position the line of position p starts at
RECURSIVE LineStart(_, _)
LineStart(t, p) == IF p = 0 \/ At(t, p - 1) = NL THEN p ELSE LineStart(t, p - 1)

\* the white space the line of position p starts with
RECURSIVE SpacesFrom(_, _)
SpacesFrom(t, p) ==
  IF p < Len(t) /\ At(t, p) = SP THEN <<SP>> \o SpacesFrom(t, p + 1) ELSE <<>>

IndentationAt(t, p) == SpacesFrom(t, LineStart(t, p))

\* the content with indent before each of its lines that is not blank
Indented(content, indent) ==
  Join([i \in 1..Len(Split(content)) |->
          IF AllWs(Split(content)[i]) THEN Split(content)[i]
          ELSE indent \o Split(content)[i]])

\* C23: create-within-class changes only the line of the closing brace of the
\* class: the text before the brace is kept as it is, lines before it
\* included; then come, on lines of their own, the lines of the content, each
\* line that is not blank behind the indentation of the class plus two spaces
\* and blank lines as they are; then, on a new line, the indentation of the
\* class, the closing brace and all the text after it, as it was.
C23_CreateInClassRewritesTheBraceLine ==
  \A r \in Reqs :
    Writes(r) /\ TreeEdit(r) /\ Truthy(req[r].parentClass) =>
      With(Parse(originalCode[r]), LAMBDA tree :
        With(findSymbol(tree, originalCode[r], req[r].parentClass, <<"class">>), LAMBDA class :
          /\ class.found
          /\ ~findSymbolInClass(tree, originalCode[r], class.node,
                                req[r].symbolName, req[r].symbolType).found
          => With(IndentationAt(originalCode[r], tree[class.node].start), LAMBDA classIndent :
               /\ At(originalCode[r], tree[class.node].end - 1) = "}"
               /\ newCode[r] = Slice(originalCode[r], 0, tree[class.node].end - 1) \o <<NL>>
                                 \o Indented(req[r].content, classIndent \o <<SP, SP>>)
                                 \o <<NL>> \o classIndent
                                 \o SliceFrom(originalCode[r], tree[class.node].end - 1))))

\* a member of several lines, one of them blank, was created and written in an
\* indented class whose closing brace has text after it on its line
C23_Witness ==
  \E r \in Reqs :
    /\ ClassCreate(r)
    /\ result[r] = SuccessMessage(req[r])
    /\ IndentationAt(originalCode[r], ClassNodeOf(r).start) # <<>>
    /\ req[r].content = MultiLine
    /\ ClassNodeOf(r).end < Len(originalCode[r])
    /\ At(originalCode[r], ClassNodeOf(r).end) # NL

\* what request r locates: the member of its parent class when it names one,
\* else the symbol at top level
LocatedOf(r) == IF Truthy(req[r].parentClass) THEN MemberOf(r) ELSE SymbolOf(r)

\* the text of the name field of node k of the tree of code, <<>> for none
NameOf(code, k) ==
  With(childForFieldName(Parse(code), k, "name"), LAMBDA nameNode :
    IF nameNode = 0 THEN <<>> ELSE NodeText(code, Parse(code)[nameNode]))

\* C24: findSymbol and findSymbolInClass, asked for kind 'constructor', return
\* a node only if it is a method definition whose name is 'constructor': a
\* method of another name is never returned, whatever symbolName is.
C24_ConstructorKindFindsConstructorsOnly ==
  \A r \in Reqs :
    TreeEdit(r) /\ req[r].symbolType = <<"constructor">> /\ LocatedOf(r).found =>
      /\ Parse(originalCode[r])[LocatedOf(r).node].type = "method_definition"
      /\ NameOf(originalCode[r], LocatedOf(r).node) = <<"constructor">>

\* node k is a class: a class declaration or definition, or a class expression
IsClassNode(tree, k) == tree[k].named /\ tree[k].type \in ClassTypes \cup {"class"}

\* node k lies in a class that lies below node c
InNestedClass(tree, c, k) ==
  \E b \in (c + 1)..k : IsClassNode(tree, b) /\ InSubtree(tree, c, b) /\ InSubtree(tree, b, k)

\* C25: the member findSymbolInClass returns for a class belongs to that class
\* itself: it never lies inside a class nested within the class.
C25_MemberIsNotOfANestedClass ==
  \A r \in Reqs :
    TreeEdit(r) /\ Truthy(req[r].parentClass) /\ MemberOf(r).found =>
      ~InNestedClass(Parse(originalCode[r]), ClassOf(r).node, MemberOf(r).node)

\* the tree getMemories parses a file to
TreeOf(file) == parse(RepoMapService_loadLanguage(extname(file)), files[file])

\* the line (1-based) node k of the tree of the code starts on
LineOf(tree, code, k) == Position(code, tree[k].start).row + 1

\* node k of the tree is a child of the root that declares the name on the
\* line: a node of its subtree is the name, and the node, or the declarator of
\* a variable declaration, starts on the line
DeclaresAtRoot(tree, code, k, name, line) ==
  /\ tree[k].depth = 1
  /\ \E n \in k..SubtreeEnd(tree, k) : tree[n].named /\ NodeText(code, tree[n]) = name
  /\ \/ LineOf(tree, code, k) = line
     \/ /\ tree[k].type = "lexical_declaration"
        /\ \E n \in k..SubtreeEnd(tree, k) :
             tree[n].type = "variable_declarator" /\ LineOf(tree, code, n) = line

\* the positions, in a list of symbols, of the symbols without parentClass
ParentlessIn(symbols) == {j \in 1..Len(symbols) : symbols[j].parentClass = Undefined}

\* the positions, in the symbols of a file, of the symbols without parentClass
Parentless(file) == ParentlessIn(SymbolsOf(file))

\* C26: extractSymbols records a symbol without parentClass only for a child
\* of the root of the file: every such symbol has the name and the line of a
\* node at depth 1, one node a symbol, and no declaration nested in a function
\* body, a block, an export statement or another node is recorded.
C26_ParentlessSymbolsAreChildrenOfTheRoot ==
  \A file \in Processed :
    IsMapped(file) =>
      With(TreeOf(file), LAMBDA tree :
      With(extractSymbols(tree, files[file]), LAMBDA symbols :
        /\ \A j \in ParentlessIn(symbols) :
             \E k \in 1..Len(tree) :
               DeclaresAtRoot(tree, files[file], k, symbols[j].name, symbols[j].line)
        /\ Cardinality(ParentlessIn(symbols))
             <= Cardinality({k \in 1..Len(tree) :
                               tree[k].depth = 1 /\ kinds(tree[k].type) # Undefined})))

\* a file with a function declared in the body of another function and two
\* functions at the root has two symbols
C26_Witness ==
  /\ mapPc = "done"
  /\ fileSet = <<JsPath>>
  /\ files[JsPath] = InnerFn
  /\ Len(repoMap) = 1
  /\ Cardinality(Parentless(JsPath)) = 2

\* the innermost class node that holds node k, 0 when no class holds it
InnermostClass(tree, k) ==
  With({b \in 1..k : b # k /\ IsClassNode(tree, b) /\ InSubtree(tree, b, k)}, LAMBDA holders :
    IF holders = {} THEN 0 ELSE CHOOSE b \in holders : \A c \in holders : c <= b)

\* C27: every symbol extractSymbols records with a parentClass is a method and
\* its parentClass is the innermost class that contains the method: a member
\* of a class nested in a class is not attributed to the outer class.
C27_ParentClassIsTheInnermostClass ==
  \A file \in Processed :
    IsMapped(file) =>
      With(TreeOf(file), LAMBDA tree :
        \A k \in 1..Len(tree) :
          With(RecordAt(tree, k), LAMBDA record :
            record.idNode # 0 /\ record.parentClass # 0 =>
              /\ record.kind = <<"method">>
              /\ tree[k].type = "method_definition"
              /\ record.parentClass = InnermostClass(tree, k)))

\* C29: for every symbol of a file, the important line formatFileOutput
\* computes is a line of the file (0 <= index < number of lines) that is
\* neither blank nor a comment line, and it is the line of the declaration when
\* that line is neither blank nor a comment line.
C29_ImportantLineIsALineOfCode ==
  \A file \in Processed :
    IsMapped(file) =>
      With(Split(files[file]), LAMBDA lines :
      With(SymbolsOf(file), LAMBDA symbols :
        \A j \in 1..Len(symbols) :
          With(actualLineOf(lines, symbols[j]), LAMBDA resolved :
            /\ ~resolved.threw
            /\ resolved.actualLine >= 0
            /\ resolved.actualLine < Len(lines)
            /\ ~isCommentOrEmpty(lines[resolved.actualLine + 1])
            /\ ~isCommentOrEmpty(lines[symbols[j].line]) =>
                 resolved.actualLine = symbols[j].line - 1)))

\* the positions, in the log, of the calls and steps of request r that threw
RaisedOf(r) == {i \in 1..Len(log) : log[i].r = r /\ "threw" \in DOMAIN log[i]}

\* C28: an exception raised by exists, by the read, by parsing, traversal or
\* splicing, or by the write is caught: the request returns 'Error modifying
\* symbol: <message>', it makes no call after the exception, so no write, and
\* it leaves the dirty flag as it was; a request returns that string only
\* after an exception.
C28_ExceptionsAreReturnedAsErrors ==
  \A r \in Reqs :
    /\ pc[r] \in {"start", "exists", "getFile", "writeFile", "done"}
    /\ \A i \in RaisedOf(r) :
         /\ pc[r] = "done"
         /\ result[r] = <<"Error modifying symbol: ">> \o log[i].threw
         /\ i = Len(log)
         /\ \A j \in 1..(i - 1) : log[j].op # "writeFile"
         /\ dirty = initial.dirty
         /\ log[i].op # "writeFile" => files = initial.files
    /\ (Len(result[r]) > 0 /\ result[r][1] = "Error modifying symbol: ") => RaisedOf(r) # {}

\* writeFile threw on a request that had generated a new text, the dirty flag
\* was not set before
C28_Witness ==
  \E r \in Reqs :
    /\ RaisedOf(r) # {}
    /\ log[Len(log)].op = "writeFile"
    /\ newCode[r] # originalCode[r]
    /\ ~initial.dirty

\* the effect of request q is in the text: its content when it has one, and
\* nothing of the name it deleted when it has none
HasEffectOf(text, q) ==
  IF q.content # <<>> THEN Contains(text, q.content)
  ELSE ~Contains(text, <<SP>> \o q.symbolName)

\* C30: when two requests on one file that name different symbols have both
\* returned success, however their calls of exists, getFile and writeFile
\* interleave, the file holds the effect of both edits: no write is lost under
\* a text computed from a read taken before it.
C30_NoWriteIsLost ==
  (\A r \in BothReqs : pc[r] = "done" /\ result[r] = SuccessMessage(req[r])) =>
    \A r \in BothReqs : HasEffectOf(files[JsPath], req[r])

====
